---- MODULE Spec2Model ----
(***************************************************************************)
(* Killer Bug AI Debugger: the DebugState singleton (debug-state.ts), the  *)
(* VS Code debug event callbacks that mutate it, and the MCP tool          *)
(* operations (session / execution / inspection) that read it.             *)
(*                                                                         *)
(* The extension host is single threaded: a callback or a tool runs        *)
(* without interruption up to its next await of real I/O (customRequest,   *)
(* executeCommand, startDebugging, stopDebugging, fs.stat, setTimeout).    *)
(* Every such await is one entry of the bag `tasks`; the reply to it is an *)
(* action of its own, so that events and other replies interleave between  *)
(* a request and its continuation exactly where the code lets them.        *)
(***************************************************************************)
EXTENDS Integers, Sequences, FiniteSets, Bags, TLC

(* ------------------------------ bounds --------------------------------- *)
MaxThreads  == 2      \* thread ids 1..MaxThreads
MaxPoints   == 2      \* program points a thread can be stopped at
MaxDepth    == 1      \* frames in one stackTrace response
MaxSessions == 1      \* debug sessions created in one run (ids are not reused)
MaxTasks    == 2      \* awaits in flight at the same time
MaxProbe    == 2      \* largest task count the asyncio probe reports
MaxBps      == 1      \* breakpoint objects that exist in VS Code

Tids  == 1..MaxThreads
Sids  == 1..MaxSessions

(* null / undefined of the source: 0 for ids and lines, "" for strings *)
NoId  == 0
NoStr == ""

(* --------------------------- adapter vocabulary ------------------------ *)
ProgramFile == "/app/main.py"

\* session.configuration: the adapter type and the program (absent on attach)
Configuration(type, program) == [type |-> type, program |-> program]
\* configurations of sessions the user starts from the editor
UserConfigurations == {Configuration("debugpy", ProgramFile), Configuration("node", NoStr)}

\* frame of thread t at program point p, as the adapter reports it
FrameLineAt(p) == 10 * p
FrameNameAt(p) == IF p % 2 = 1 THEN "compute" ELSE "run_forever"
FrameworkFile == "/site-packages/uvicorn/Server.py"
FramePathAt(t, p) == IF t = 1 THEN ProgramFile
                     ELSE IF p % 2 = 1 THEN NoStr ELSE FrameworkFile
Frame(t, p) == [id |-> 10 * t + p, line |-> FrameLineAt(p) + t - 1,
                name |-> FrameNameAt(p), path |-> FramePathAt(t, p)]
FramesOf(t) == {Frame(t, p) : p \in 1..MaxPoints}

RECURSIVE SeqsUpTo(_, _)
SeqsUpTo(S, n) ==
    IF n = 0 THEN {<<>>}
    ELSE LET shorter == SeqsUpTo(S, n - 1)
         IN  shorter \cup {Append(q, x) : q \in {r \in shorter : Len(r) = n - 1}, x \in S}

NoDup(q) == \A i, j \in 1..Len(q) : i # j => q[i] # q[j]

\* stackTrace responses for thread t (body.stackFrames), innermost first
StackReplies(t) == {q \in SeqsUpTo(FramesOf(t), MaxDepth) : NoDup(q)}

\* the adapter's name of thread t
ThreadName(t) == IF t = 1 THEN "MainThread" ELSE "worker"
Reasons == {"breakpoint"}

\* one element of a threads response
ReplyThread(t, st) == [id |-> t, name |-> ThreadName(t), stopped |-> st]
ReplyThreads == {ReplyThread(t, st) : t \in Tids, st \in BOOLEAN}
\* threads responses (body.threads): each thread id at most once
ThreadsReplies ==
    {q \in SeqsUpTo(ReplyThreads, MaxThreads) :
        \A i, j \in 1..Len(q) : i # j => q[i].id # q[j].id}


(* ------------------------------- state --------------------------------- *)
VARIABLES
    \* fields of class DebugState
    sessionId, currentFile, currentLine, currentFunction,
    isPaused, isInEventLoop, stackFrames, breakpoints,
    threads, mainThreadId,
    pausedThreadId, pausedFrameId, pausedLine, pausedFunction, pausedFile,
    \* VS Code side: vscode.debug.activeDebugSession, the sessions that have
    \* not terminated, and the configuration of every session created so far
    \* (the n-th session has id n)
    activeDebugSession, sessions, configurations,
    \* vscode.debug.breakpoints, the live breakpoint list
    vsBreakpoints,
    \* awaits in flight (a bag of continuation records)
    tasks,
    \* the value returned by the tool call that returned last
    result,
    \* threadId of the most recent stopped event of the session now tracked
    \* (0: none yet, or the event named no thread)
    lastStoppedThread

stateVars == <<sessionId, currentFile, currentLine, currentFunction,
               isPaused, isInEventLoop, stackFrames, breakpoints,
               threads, mainThreadId,
               pausedThreadId, pausedFrameId, pausedLine, pausedFunction, pausedFile>>
envVars == <<activeDebugSession, sessions, configurations, vsBreakpoints>>
vars == <<stateVars, envVars, tasks, result, lastStoppedThread>>

pausedVars == <<pausedThreadId, pausedFrameId, pausedLine, pausedFunction, pausedFile>>
positionVars == <<currentFile, currentLine, currentFunction, stackFrames>>

(* --------------------------- thread registry --------------------------- *)
\* Map<number, ThreadState>: a JavaScript Map iterates in insertion order and
\* set() on an existing key keeps the key's position.
ThreadState(id, name, stopped, reason) ==
    [id |-> id, name |-> name, stopped |-> stopped, reason |-> reason]

MapIndex(m, id) ==
    IF \E i \in 1..Len(m) : m[i].id = id
    THEN CHOOSE i \in 1..Len(m) : m[i].id = id
    ELSE 0
MapHas(m, id) == MapIndex(m, id) # 0
MapGet(m, id) == m[MapIndex(m, id)]
\* variant: set() adds an entry even when the key is present
MapSetAppend(m, e) == Append(m, e)
MapSet(m, e) ==
    IF MapHas(m, e.id) THEN [m EXCEPT ![MapIndex(m, e.id)] = e] ELSE Append(m, e)
MapDelete(m, id) == SelectSeq(m, LAMBDA e : e.id # id)

\* Array.from(this.threads.values()).find(t => t.stopped): 0 when none
FindStopped(m) ==
    IF \E i \in 1..Len(m) : m[i].stopped
    THEN m[CHOOSE i \in 1..Len(m) :
             m[i].stopped /\ \A j \in 1..(i - 1) : ~m[j].stopped].id
    ELSE NoId

GeneratedName == "Thread"

(* ------------------------------ tasks ---------------------------------- *)
\* kind: the async function; pc: the await it is suspended at; sess: the
\* session the request went to; tid: the thread asked about; prev: the
\* position a tool recorded before it issued its command; arg, file, frameId:
\* arguments and locals of the tool (adapter type or scope filter, program
\* file or breakpoint file and line, frame id); todo, acc: the scopes still to
\* list and the number of variables collected or breakpoints removed so far
NoPrev == [file |-> NoStr, line |-> NoId, function |-> NoStr]
Task(kind, pc, sess, tid) ==
    [kind |-> kind, pc |-> pc, sess |-> sess, tid |-> tid, prev |-> NoPrev,
     arg |-> NoStr, file |-> NoStr, line |-> NoId, frameId |-> NoId, todo |-> <<>>,
     acc |-> 0]
Alive == sessions
created == Len(configurations)
InFlight == BagCardinality(tasks)
HasRoom == InFlight < MaxTasks
Spawn(t) == tasks (+) SetToBag({t})
Finish(t) == tasks (-) SetToBag({t})
Move(t, u) == (tasks (-) SetToBag({t})) (+) SetToBag({u})
Pending == BagToSet(tasks)

\* the object a tool returns. hint / hasPaused: the keys `hint` / `isPaused`
\* are present; absent keys hold the null of their type
NoResult == [op |-> "none", success |-> FALSE, error |-> NoStr, hint |-> FALSE,
             hasPaused |-> FALSE, isPaused |-> FALSE,
             sessionId |-> NoId, file |-> NoStr, line |-> NoId, function |-> NoStr,
             prev |-> NoPrev, frameId |-> NoId, count |-> 0,
             condition |-> NoStr, index |-> NoId, list |-> <<>>]
\* the step returns nothing to a caller
NoReturn == result' = NoResult
Failure(op, error) == [NoResult EXCEPT !.op = op, !.error = error]
FailureWithHint(op, error, paused) ==
    [NoResult EXCEPT !.op = op, !.error = error, !.hint = TRUE,
                     !.hasPaused = TRUE, !.isPaused = paused]

(* ------------------------------- Init ---------------------------------- *)
Init ==
    /\ sessionId = NoId
    /\ currentFile = NoStr
    /\ currentLine = NoId
    /\ currentFunction = NoStr
    /\ isPaused = FALSE
    /\ isInEventLoop = FALSE
    /\ stackFrames = <<>>
    /\ breakpoints = <<>>
    /\ threads = <<>>
    /\ mainThreadId = NoId
    /\ pausedThreadId = NoId
    /\ pausedFrameId = NoId
    /\ pausedLine = NoId
    /\ pausedFunction = NoStr
    /\ pausedFile = NoStr
    /\ activeDebugSession = NoId
    /\ sessions = {}
    /\ configurations = <<>>
    /\ vsBreakpoints = <<>>
    /\ tasks = EmptyBag
    /\ result = NoResult
    /\ lastStoppedThread = NoId

(* --------------------------- DebugState code --------------------------- *)
clearPausedFrameInfo ==
    /\ pausedThreadId' = NoId
    /\ pausedFrameId' = NoId
    /\ pausedLine' = NoId
    /\ pausedFunction' = NoStr
    /\ pausedFile' = NoStr

\* variant: the cached frames are not emptied
resetKeepsFrames ==
    /\ sessionId' = NoId
    /\ currentFile' = NoStr
    /\ currentLine' = NoId
    /\ currentFunction' = NoStr
    /\ isPaused' = FALSE
    /\ isInEventLoop' = FALSE
    /\ UNCHANGED stackFrames
    /\ threads' = <<>>
    /\ mainThreadId' = NoId
    /\ clearPausedFrameInfo

reset ==
    /\ sessionId' = NoId
    /\ currentFile' = NoStr
    /\ currentLine' = NoId
    /\ currentFunction' = NoStr
    /\ isPaused' = FALSE
    /\ isInEventLoop' = FALSE
    /\ stackFrames' = <<>>
    /\ threads' = <<>>
    /\ mainThreadId' = NoId
    /\ clearPausedFrameInfo

\* variant: the comparison with the active session inverted
isActiveInverted == sessionId # NoId /\ activeDebugSession = NoId
isActive == sessionId # NoId /\ activeDebugSession # NoId


(* ---------------- strings: toLowerCase() and includes() ---------------- *)
\* the characters of the strings that occur as file paths, function names
\* and thread names
Chars(s) ==
    CASE s = "/app/main.py" -> <<"/","a","p","p","/","m","a","i","n",".","p","y">>
      [] s = "/site-packages/uvicorn/Server.py" ->
            <<"/","s","i","t","e","-","p","a","c","k","a","g","e","s","/",
              "u","v","i","c","o","r","n","/","S","e","r","v","e","r",".","p","y">>
      [] s = "compute" -> <<"c","o","m","p","u","t","e">>
      [] s = "run_forever" -> <<"r","u","n","_","f","o","r","e","v","e","r">>
      [] s = "MainThread" -> <<"M","a","i","n","T","h","r","e","a","d">>
      [] s = "worker" -> <<"w","o","r","k","e","r">>
      [] s = "Thread" -> <<"T","h","r","e","a","d">>
      [] s = "Locals" -> <<"L","o","c","a","l","s">>
      [] s = "Globals" -> <<"G","l","o","b","a","l","s">>
      [] s = "local" -> <<"l","o","c","a","l">>
      [] s = "/app/notes.txt" -> <<"/","a","p","p","/","n","o","t","e","s",".","t","x","t">>
      [] s = "" -> <<>>

RECURSIVE lastIndexOf(_, _, _)
\* the last position of character c in cs at or before position i; 0 if none
lastIndexOf(cs, c, i) ==
    IF i = 0 THEN 0 ELSE IF cs[i] = c THEN i ELSE lastIndexOf(cs, c, i - 1)

LowerChar(c) ==
    CASE c = "M" -> "m" [] c = "S" -> "s" [] c = "T" -> "t"
      [] c = "L" -> "l" [] c = "G" -> "g" [] OTHER -> c
toLowerCase(cs) == [i \in 1..Len(cs) |-> LowerChar(cs[i])]

\* hay.includes(needle) on character sequences
includes(hay, needle) ==
    \E k \in 0..(Len(hay) - Len(needle)) :
        \A i \in 1..Len(needle) : hay[k + i] = needle[i]

(* ------------------------- Pause Classifier ---------------------------- *)
BreakpointWindow == 5

\* the i-th breakpoint object: a SourceBreakpoint with its file and 0-based
\* line, or (every third one) a FunctionBreakpoint
Breakpoint(i) ==
    [id |-> i,
     condition |-> NoStr,
     source |-> i % 3 # 0,
     file |-> IF i % 2 = 1 THEN FrameworkFile ELSE ProgramFile,
     line0 |-> IF i % 2 = 1 THEN 25 + 20 * (i \div 3) ELSE 24 + 20 * (i \div 3)]
Breakpoints == {Breakpoint(i) : i \in 1..MaxBps}

BreakpointsInFile(file) ==
    IF file \in DOMAIN breakpoints THEN breakpoints[file] ELSE <<>>

Abs(x) == IF x < 0 THEN -x ELSE x

\* variant: the window excludes its end points
isNearBreakpointExclusive(file, line) ==
    IF file = NoStr \/ line = NoId THEN FALSE
    ELSE LET bps == BreakpointsInFile(file)
         IN  \E i \in 1..Len(bps) : Abs(line - (bps[i].line0 + 1)) < BreakpointWindow

isNearBreakpoint(file, line) ==
    IF file = NoStr \/ line = NoId THEN FALSE
    ELSE LET bps == BreakpointsInFile(file)
         IN  \E i \in 1..Len(bps) : Abs(line - (bps[i].line0 + 1)) <= BreakpointWindow

frameworkPaths ==
    { <<"/","u","v","i","c","o","r","n","/">>, <<"/","s","t","a","r","l","e","t","t","e","/">>,
      <<"/","f","a","s","t","a","p","i","/">>, <<"/","f","l","a","s","k","/">>,
      <<"/","d","j","a","n","g","o","/">>, <<"/","t","o","r","n","a","d","o","/">>,
      <<"/","a","s","y","n","c","i","o","/">>, <<"/","s","e","l","e","c","t","o","r","s","/">>,
      <<"/","s","o","c","k","e","t">>,
      <<"s","i","t","e","-","p","a","c","k","a","g","e","s","/">>,
      <<"d","i","s","t","-","p","a","c","k","a","g","e","s","/">>,
      <<"n","o","d","e","_","m","o","d","u","l","e","s","/">>,
      <<"/","e","x","p","r","e","s","s","/">>, <<"/","k","o","a","/">> }

eventLoopFunctions ==
    { <<"r","u","n">>, <<"_","r","u","n">>, <<"s","e","r","v","e">>, <<"_","s","e","r","v","e">>,
      <<"l","i","s","t","e","n">>, <<"_","l","i","s","t","e","n">>,
      <<"l","o","o","p">>, <<"e","v","e","n","t","_","l","o","o","p">>,
      <<"r","u","n","_","f","o","r","e","v","e","r">>,
      <<"r","u","n","_","u","n","t","i","l","_","c","o","m","p","l","e","t","e">>,
      <<"s","e","l","e","c","t">>, <<"p","o","l","l">>, <<"e","p","o","l","l">>,
      <<"k","q","u","e","u","e">>, <<"w","a","i","t">>, <<"_","w","a","i","t">>,
      <<"w","a","i","t","_","f","o","r">>,
      <<"_","_","a","e","x","i","t","_","_">>, <<"_","_","a","e","n","t","e","r","_","_">> }

isFrameworkCode(file, function) ==
    IF file = NoStr /\ function = NoStr THEN FALSE
    ELSE LET isFrameworkPath ==
                 file # NoStr /\ \E q \in frameworkPaths : includes(toLowerCase(Chars(file)), q)
             isEventLoopFunction ==
                 function # NoStr /\
                 \E fn \in eventLoopFunctions : includes(toLowerCase(Chars(function)), fn)
         IN  isFrameworkPath \/ isEventLoopFunction

\* responses to the asyncio probe: the request throws, the response has no
\* result, the result does not match /\((\w+),\s*(\d+)\)/, or it is the
\* tuple "(debug, count)"
EvalReplies ==
    {[kind |-> k, count |-> 0] : k \in {"throw", "noresult", "nomatch"}}
    \cup {[kind |-> "tuple", count |-> n] : n \in 0..MaxProbe}

\* the answer of a probe whose evaluate request was rejected
ProbeThrew == [kind |-> "throw", count |-> 0]

hasProbe(type) == type = "debugpy" \/ type = "python"


(* ------------------- VS Code session life cycle events ----------------- *)
\* a debug session with configuration c comes into being in VS Code
\* (session ids are never reused)
SessionCreated(c) ==
    /\ created < MaxSessions
    /\ configurations' = Append(configurations, c)
    /\ sessions' = sessions \cup {created + 1}

\* F5 pressed by the user
UserStartsSession(c) ==
    /\ c \in UserConfigurations
    /\ SessionCreated(c)
    /\ UNCHANGED <<stateVars, activeDebugSession, vsBreakpoints, tasks,
                   lastStoppedThread>>
    /\ NoReturn

\* the user starts one more session while those started so far exist or have
\* ended
AnotherSessionStarts(c) ==
    /\ c \in UserConfigurations
    /\ created = MaxSessions
    /\ configurations' = Append(configurations, c)
    /\ sessions' = sessions \cup {created + 1}
    /\ UNCHANGED <<stateVars, activeDebugSession, vsBreakpoints, tasks,
                   lastStoppedThread>>
    /\ NoReturn

\* vscode.debug.onDidChangeActiveDebugSession
onDidChangeActiveDebugSession(s) ==
    /\ s \in Alive \cup {NoId}
    /\ s # activeDebugSession
    /\ activeDebugSession' = s
    /\ IF s # NoId
       THEN /\ sessionId' = s
            /\ currentFile' = configurations[s].program
            /\ isPaused' = FALSE
            /\ isInEventLoop' = FALSE
            /\ UNCHANGED <<currentLine, currentFunction, stackFrames, threads,
                           mainThreadId, pausedVars>>
       ELSE reset
    /\ lastStoppedThread' = NoId
    /\ UNCHANGED <<breakpoints, sessions, configurations, vsBreakpoints, tasks>>
    /\ NoReturn

\* vscode.debug.onDidTerminateDebugSession
onDidTerminateDebugSession(s) ==
    /\ s \in Alive
    /\ sessions' = sessions \ {s}
    /\ IF s = sessionId
       THEN reset /\ lastStoppedThread' = NoId
       ELSE UNCHANGED <<sessionId, currentFile, currentLine, currentFunction, isPaused,
                        isInEventLoop, stackFrames, threads, mainThreadId, pausedVars,
                        lastStoppedThread>>
    /\ UNCHANGED <<breakpoints, activeDebugSession, configurations, vsBreakpoints,
                   tasks>>
    /\ NoReturn

(* ---------------- onDidReceiveDebugSessionCustomEvent ------------------ *)
\* event 'stopped' of session s with body.threadId tid (0: absent)
onStopped(s, tid, reason) ==
    /\ s \in Alive
    /\ IF s # sessionId
       THEN UNCHANGED vars
       ELSE /\ HasRoom
            /\ threads' =
                 IF tid = NoId THEN threads
                 ELSE IF MapHas(threads, tid)
                      THEN MapSet(threads, [MapGet(threads, tid) EXCEPT
                                              !.stopped = TRUE, !.reason = reason])
                      ELSE MapSet(threads, ThreadState(tid, GeneratedName, TRUE, reason))
            /\ isPaused' = TRUE
            /\ lastStoppedThread' = tid
            \* updateCurrentPosition(event.session) runs up to its first await
            /\ tasks' = Spawn([Task("ucp", "threads", s, NoId) EXCEPT
                                  !.arg = configurations[s].type])
            /\ UNCHANGED <<sessionId, currentFile, currentLine, currentFunction,
                           isInEventLoop, stackFrames, breakpoints, mainThreadId,
                           pausedVars, envVars>>
            /\ NoReturn

\* event 'continued'
onContinued(s, tid) ==
    /\ s \in Alive
    /\ IF s # sessionId
       THEN UNCHANGED vars
       ELSE /\ threads' =
                 IF tid # NoId /\ MapHas(threads, tid)
                 THEN MapSet(threads, [MapGet(threads, tid) EXCEPT
                                         !.stopped = FALSE, !.reason = NoStr])
                 ELSE threads
            /\ IF tid = mainThreadId \/ tid = NoId
               THEN isPaused' = FALSE /\ isInEventLoop' = FALSE
               ELSE UNCHANGED <<isPaused, isInEventLoop>>
            /\ UNCHANGED <<sessionId, currentFile, currentLine, currentFunction,
                           stackFrames, breakpoints, mainThreadId, pausedVars, envVars,
                           tasks, lastStoppedThread>>
            /\ NoReturn

\* event 'thread' with reason 'started' or 'exited'
onThread(s, tid, reason) ==
    /\ s \in Alive
    /\ IF s # sessionId
       THEN UNCHANGED vars
       ELSE /\ IF reason = "started"
               THEN /\ threads' = MapSet(threads, ThreadState(tid, GeneratedName, FALSE, NoStr))
                    /\ mainThreadId' = IF mainThreadId = NoId THEN tid ELSE mainThreadId
               ELSE IF reason = "exited"
                    THEN threads' = MapDelete(threads, tid) /\ UNCHANGED mainThreadId
                    ELSE UNCHANGED <<threads, mainThreadId>>
            /\ UNCHANGED <<sessionId, currentFile, currentLine, currentFunction,
                           isPaused, isInEventLoop, stackFrames, breakpoints,
                           pausedVars, envVars, tasks, lastStoppedThread>>
            /\ NoReturn

(* --------------------- onDidChangeActiveStackItem ---------------------- *)
\* stackItem: kind "none" (undefined), "thread" (DebugThread) or "frame"
\* (DebugStackFrame, has frameId)
StackItem(kind, tid, frameId) == [kind |-> kind, threadId |-> tid, frameId |-> frameId]
StackItems ==
    {StackItem("none", NoId, NoId)}
    \cup {StackItem("thread", t, NoId) : t \in Tids}
    \cup UNION {{StackItem("frame", t, f.id) : f \in FramesOf(t)} : t \in Tids}

onDidChangeActiveStackItem(item) ==
    /\ item.kind # "none" => Alive # {}
    /\ IF item.kind = "frame"
       THEN /\ isPaused' = TRUE
            /\ pausedThreadId' = item.threadId
            /\ pausedFrameId' = item.frameId
            \* captureFrameDetails(session, stackItem) up to its await
            /\ IF activeDebugSession # NoId
               THEN HasRoom /\ tasks' = Spawn([Task("cfd", "stack", activeDebugSession,
                                                    item.threadId) EXCEPT
                                                 !.arg = configurations[activeDebugSession].type])
               ELSE UNCHANGED tasks
            /\ UNCHANGED <<isInEventLoop, pausedLine, pausedFunction, pausedFile>>
       ELSE IF item.kind = "thread"
       THEN /\ isPaused' = FALSE
            /\ isInEventLoop' = FALSE
            /\ pausedThreadId' = item.threadId
            /\ UNCHANGED <<pausedFrameId, pausedLine, pausedFunction, pausedFile, tasks>>
       ELSE /\ isPaused' = FALSE
            /\ isInEventLoop' = FALSE
            /\ clearPausedFrameInfo
            /\ UNCHANGED tasks
    /\ UNCHANGED <<sessionId, currentFile, currentLine, currentFunction, stackFrames,
                   breakpoints, threads, mainThreadId, envVars, lastStoppedThread>>
    /\ NoReturn


(* ----------------------- onDidChangeBreakpoints ------------------------ *)
RECURSIVE IndexOf(_, _, _)
\* Array.prototype.indexOf, 1-based; 0 when absent
IndexOf(q, x, i) ==
    IF i > Len(q) THEN 0 ELSE IF q[i] = x THEN i ELSE IndexOf(q, x, i + 1)

Splice(q, i) == [k \in 1..(Len(q) - 1) |-> IF k < i THEN q[k] ELSE q[k + 1]]

MirrorAdd(m, bp) ==
    IF ~bp.source THEN m
    ELSE IF bp.file \in DOMAIN m
         THEN [m EXCEPT ![bp.file] = Append(@, bp)]
         ELSE [f \in DOMAIN m \cup {bp.file} |-> IF f = bp.file THEN <<bp>> ELSE m[f]]

\* variant: a removal drops the whole per-file entry
MirrorRemoveWholeFile(m, bp) ==
    IF ~bp.source \/ bp.file \notin DOMAIN m THEN m
    ELSE [f \in DOMAIN m \ {bp.file} |-> m[f]]

MirrorRemove(m, bp) ==
    IF ~bp.source \/ bp.file \notin DOMAIN m THEN m
    ELSE LET bps == m[bp.file]
             index == IndexOf(bps, bp, 1)
             rest == IF index > 0 THEN Splice(bps, index) ELSE bps
         IN  IF Len(rest) = 0
             THEN [f \in DOMAIN m \ {bp.file} |-> m[f]]
             ELSE [m EXCEPT ![bp.file] = rest]

\* a breakpoint is added to the live list (by a tool or in the editor) and
\* the change notification is delivered
BreakpointAdded(bp) ==
    /\ bp \in Breakpoints
    /\ IndexOf(vsBreakpoints, bp, 1) = 0
    /\ vsBreakpoints' = Append(vsBreakpoints, bp)
    /\ breakpoints' = MirrorAdd(breakpoints, bp)
    /\ UNCHANGED <<sessionId, positionVars, isPaused, isInEventLoop, threads,
                   mainThreadId, pausedVars, activeDebugSession, sessions,
                   configurations, tasks, lastStoppedThread>>
    /\ NoReturn

BreakpointRemoved(bp) ==
    /\ IndexOf(vsBreakpoints, bp, 1) > 0
    /\ vsBreakpoints' = Splice(vsBreakpoints, IndexOf(vsBreakpoints, bp, 1))
    /\ breakpoints' = MirrorRemove(breakpoints, bp)
    /\ UNCHANGED <<sessionId, positionVars, isPaused, isInEventLoop, threads,
                   mainThreadId, pausedVars, activeDebugSession, sessions,
                   configurations, tasks, lastStoppedThread>>
    /\ NoReturn

(* ------------------------ adapter responses ---------------------------- *)
\* a customRequest either throws (ok = FALSE) or resolves with a body
Threw == [ok |-> FALSE, body |-> <<>>]
Resolved(b) == [ok |-> TRUE, body |-> b]
ThreadsResponses == {Threw} \cup {Resolved(q) : q \in ThreadsReplies}
StackResponses(t) == {Threw} \cup {Resolved(q) : q \in StackReplies(t)}
\* a request to a session that has terminated can only throw
Answers(s, r) == s \in Alive \/ ~r.ok

RECURSIVE SetAll(_, _, _)
\* for (const thread of threadsResponse.threads) this.threads.set(thread.id, ...)
SetAll(m, q, i) ==
    IF i > Len(q) THEN m
    ELSE SetAll(MapSet(m, ThreadState(q[i].id, q[i].name, q[i].stopped, NoStr)), q, i + 1)

RECURSIVE TrackMain(_, _, _)
\* if (!this.mainThreadId && thread.name?.toLowerCase().includes('main'))
TrackMain(main, q, i) ==
    IF i > Len(q) THEN main
    ELSE TrackMain(IF main = NoId /\ includes(toLowerCase(Chars(q[i].name)), <<"m","a","i","n">>)
                   THEN q[i].id ELSE main, q, i + 1)

\* the stopped thread whose stack is fetched: the main thread if it is
\* stopped, otherwise the first stopped one; 0 when none is stopped
TargetThread(m, main) ==
    IF main # NoId /\ MapHas(m, main) /\ MapGet(m, main).stopped
    THEN main
    ELSE FindStopped(m)

(* ------------------------- checkIfInEventLoop -------------------------- *)
\* checkIfInEventLoop(session, threadId) up to its await, called by task t
checkIfInEventLoop(t) ==
    IF ~hasProbe(t.arg)
    THEN isInEventLoop' = FALSE /\ tasks' = Finish(t)
    ELSE UNCHANGED isInEventLoop /\ tasks' = Move(t, [t EXCEPT !.pc = "eval"])

\* the classification once the probe has reported `count` tasks
InEventLoop(count, file, line, function) ==
    count > 1 /\ ~isNearBreakpoint(file, line) /\ isFrameworkCode(file, function)

\* variant: a false pause is flagged but isPaused is not overridden
EvaluateReplyKeepsPause(t, r) ==
    /\ t \in Pending /\ t.pc = "eval" /\ t.kind \in {"ucp", "cfd"}
    /\ r \in EvalReplies
    /\ Answers(t.sess, [ok |-> r.kind # "throw"])
    /\ tasks' = Finish(t)
    /\ IF r.kind = "throw"
       THEN isInEventLoop' = FALSE
       ELSE IF r.kind = "tuple"
       THEN isInEventLoop' = InEventLoop(r.count, currentFile, currentLine, currentFunction)
       ELSE UNCHANGED isInEventLoop
    /\ UNCHANGED <<sessionId, positionVars, isPaused, breakpoints, threads, mainThreadId,
                   pausedVars, envVars, lastStoppedThread>>
    /\ NoReturn

\* variant: a rejected probe leaves isInEventLoop as it was
EvaluateReplyThrowIgnored(t, r) ==
    /\ t \in Pending /\ t.pc = "eval" /\ t.kind \in {"ucp", "cfd"}
    /\ r \in EvalReplies
    /\ Answers(t.sess, [ok |-> r.kind # "throw"])
    /\ tasks' = Finish(t)
    /\ IF r.kind = "tuple"
       THEN LET loop == InEventLoop(r.count, currentFile, currentLine, currentFunction)
            IN  /\ isInEventLoop' = loop
                /\ isPaused' = IF loop THEN FALSE ELSE isPaused
       ELSE UNCHANGED <<isPaused, isInEventLoop>>
    /\ UNCHANGED <<sessionId, positionVars, breakpoints, threads, mainThreadId,
                   pausedVars, envVars, lastStoppedThread>>
    /\ NoReturn

\* the probe's response arrives
EvaluateReply(t, r) ==
    /\ t \in Pending /\ t.pc = "eval" /\ t.kind \in {"ucp", "cfd"}
    /\ r \in EvalReplies
    /\ Answers(t.sess, [ok |-> r.kind # "throw"])
    /\ tasks' = Finish(t)
    /\ IF r.kind = "throw"
       THEN isInEventLoop' = FALSE /\ UNCHANGED isPaused
       ELSE IF r.kind = "tuple"
       THEN LET loop == InEventLoop(r.count, currentFile, currentLine, currentFunction)
            IN  /\ isInEventLoop' = loop
                /\ isPaused' = IF loop THEN FALSE ELSE isPaused
       ELSE UNCHANGED <<isPaused, isInEventLoop>>
    /\ UNCHANGED <<sessionId, positionVars, breakpoints, threads, mainThreadId,
                   pausedVars, envVars, lastStoppedThread>>
    /\ NoReturn


(* ------------------------ updateCurrentPosition ------------------------ *)
\* variant: the line taken as zero-based and the cached frames left as sent
PositionFromZeroBased(frames) ==
    /\ stackFrames' = frames
    /\ currentLine' = frames[1].line - 1
    /\ currentFunction' = frames[1].name
    /\ currentFile' = IF frames[1].path # NoStr THEN frames[1].path ELSE currentFile

\* position fields written from the innermost frame of a stackTrace response
\* (currentFile only when the frame has a source path)
PositionFrom(frames) ==
    /\ stackFrames' = frames
    /\ currentLine' = frames[1].line
    /\ currentFunction' = frames[1].name
    /\ currentFile' = IF frames[1].path # NoStr THEN frames[1].path ELSE currentFile

\* the response to customRequest('threads') arrives
UpdateThreadsReply(t, r) ==
    /\ t \in Pending /\ t.kind = "ucp" /\ t.pc = "threads"
    /\ r \in ThreadsResponses
    /\ Answers(t.sess, r)
    /\ IF ~r.ok \/ Len(r.body) = 0
       THEN /\ tasks' = Finish(t)
            /\ UNCHANGED <<threads, mainThreadId, isPaused>>
       ELSE LET registry == SetAll(threads, r.body, 1)
                main == TrackMain(mainThreadId, r.body, 1)
                targetThread == TargetThread(registry, main)
            IN  /\ threads' = registry
                /\ mainThreadId' = main
                /\ IF targetThread = NoId
                   THEN isPaused' = FALSE /\ tasks' = Finish(t)
                   ELSE /\ UNCHANGED isPaused
                        /\ tasks' = Move(t, [t EXCEPT !.pc = "stack", !.tid = targetThread])
    /\ UNCHANGED <<sessionId, positionVars, isInEventLoop, breakpoints, pausedVars,
                   envVars, lastStoppedThread>>
    /\ NoReturn

\* variant: a rejected or empty stackTrace response empties the cached frames
UpdateStackReplyClearing(t, r) ==
    /\ t \in Pending /\ t.kind = "ucp" /\ t.pc = "stack"
    /\ r \in StackResponses(t.tid)
    /\ Answers(t.sess, r)
    /\ IF r.ok /\ Len(r.body) > 0
       THEN PositionFrom(r.body) /\ checkIfInEventLoop(t)
       ELSE /\ tasks' = Finish(t)
            /\ stackFrames' = <<>>
            /\ UNCHANGED <<currentFile, currentLine, currentFunction, isInEventLoop>>
    /\ UNCHANGED <<sessionId, isPaused, breakpoints, threads, mainThreadId, pausedVars,
                   envVars, lastStoppedThread>>
    /\ NoReturn

\* the response to customRequest('stackTrace', {threadId: targetThread.id}) arrives
UpdateStackReply(t, r) ==
    /\ t \in Pending /\ t.kind = "ucp" /\ t.pc = "stack"
    /\ r \in StackResponses(t.tid)
    /\ Answers(t.sess, r)
    /\ IF r.ok /\ Len(r.body) > 0
       THEN PositionFrom(r.body) /\ checkIfInEventLoop(t)
       ELSE tasks' = Finish(t) /\ UNCHANGED <<positionVars, isInEventLoop>>
    /\ UNCHANGED <<sessionId, isPaused, breakpoints, threads, mainThreadId, pausedVars,
                   envVars, lastStoppedThread>>
    /\ NoReturn

(* ------------------------- captureFrameDetails ------------------------- *)
\* the response to the stackTrace request of captureFrameDetails arrives
CaptureStackReply(t, r) ==
    /\ t \in Pending /\ t.kind = "cfd" /\ t.pc = "stack"
    /\ r \in StackResponses(t.tid)
    /\ Answers(t.sess, r)
    /\ IF r.ok /\ Len(r.body) > 0
       THEN LET frame == r.body[1]
            IN  /\ pausedThreadId' = t.tid
                /\ pausedFrameId' = frame.id
                /\ pausedLine' = frame.line
                /\ pausedFunction' = frame.name
                /\ pausedFile' = frame.path
                /\ currentLine' = frame.line
                /\ currentFunction' = frame.name
                /\ currentFile' = frame.path
                /\ stackFrames' = r.body
                /\ checkIfInEventLoop(t)
       ELSE tasks' = Finish(t) /\ UNCHANGED <<positionVars, pausedVars, isInEventLoop>>
    /\ UNCHANGED <<sessionId, isPaused, breakpoints, threads, mainThreadId, envVars,
                   lastStoppedThread>>
    /\ NoReturn

(* ========================= tools/execution.ts ========================== *)
ResumeTools == {"continue", "stepOver", "stepInto", "stepOut"}
ExecutionTools == ResumeTools \cup {"pause"}
StartTools == {"start", "startWithConfig", "attach"}

\* the success object a tool builds after `await debugState.refreshPausedState()`
\* from the fields of debugState it reads at that moment
ToolResult(t, sid, file, line, function, paused) ==
    LET base == [NoResult EXCEPT !.op = t.kind, !.success = TRUE, !.prev = t.prev]
    IN  CASE t.kind \in {"continue", "pause"} ->
               [base EXCEPT !.file = file, !.line = line,
                            !.hasPaused = TRUE, !.isPaused = paused]
          [] t.kind \in {"stepOver", "stepInto", "stepOut"} ->
               [base EXCEPT !.file = file, !.line = line, !.function = function,
                            !.hasPaused = TRUE, !.isPaused = paused]
          [] t.kind = "start" ->
               [base EXCEPT !.sessionId = sid, !.line = line,
                            !.hasPaused = TRUE, !.isPaused = paused]
          [] t.kind \in {"startWithConfig", "attach"} ->
               [base EXCEPT !.sessionId = sid, !.file = file, !.line = line,
                            !.hasPaused = TRUE, !.isPaused = paused]
          [] t.kind = "getStatus" ->
               [base EXCEPT !.sessionId = sid, !.file = file, !.line = line,
                            !.function = function,
                            !.hasPaused = TRUE, !.isPaused = paused]

(* -------------------------- refreshPausedState ------------------------- *)
\* variant: the refresh is started whenever a session is active
refreshPausedStateUnguarded(rest, t) ==
    IF activeDebugSession = NoId
    THEN /\ tasks' = rest
         /\ result' = ToolResult(t, sessionId, currentFile, currentLine,
                                 currentFunction, isPaused)
    ELSE /\ tasks' = rest (+) SetToBag({[t EXCEPT !.pc = "refreshThreads",
                                                  !.sess = activeDebugSession]})
         /\ NoReturn

\* refreshPausedState() called by tool t, up to its first await; `rest` is
\* what else is in flight. Without an active session or when isPaused is
\* false it returns at once and the tool builds its result.
refreshPausedState(rest, t) ==
    IF activeDebugSession = NoId \/ ~isPaused
    THEN /\ tasks' = rest
         /\ result' = ToolResult(t, sessionId, currentFile, currentLine,
                                 currentFunction, isPaused)
    ELSE /\ tasks' = rest (+) SetToBag({[t EXCEPT !.pc = "refreshThreads",
                                                  !.sess = activeDebugSession]})
         /\ NoReturn

\* the response to the threads request of refreshPausedState arrives
RefreshThreadsReply(t, r) ==
    /\ t \in Pending /\ t.pc = "refreshThreads"
    /\ r \in ThreadsResponses
    /\ Answers(t.sess, r)
    /\ IF ~r.ok \/ Len(r.body) = 0
       THEN /\ tasks' = Finish(t)
            /\ result' = ToolResult(t, sessionId, currentFile, currentLine,
                                    currentFunction, isPaused)
            /\ UNCHANGED threads
       ELSE LET registry == SetAll(threads, r.body, 1)
                stoppedThread == FindStopped(registry)
            IN  /\ threads' = registry
                /\ IF stoppedThread = NoId
                   THEN /\ tasks' = Finish(t)
                        /\ result' = ToolResult(t, sessionId, currentFile, currentLine,
                                                currentFunction, isPaused)
                   ELSE /\ tasks' = Move(t, [t EXCEPT !.pc = "refreshStack",
                                                      !.tid = stoppedThread])
                        /\ NoReturn
    /\ UNCHANGED <<sessionId, positionVars, isPaused, isInEventLoop, breakpoints,
                   mainThreadId, pausedVars, envVars, lastStoppedThread>>

\* variant: the tool's result is built from the fields as they were before
\* the stackTrace response was applied
RefreshStackReplyStale(t, r) ==
    /\ t \in Pending /\ t.pc = "refreshStack"
    /\ r \in StackResponses(t.tid)
    /\ Answers(t.sess, r)
    /\ IF r.ok /\ Len(r.body) > 0
       THEN PositionFrom(r.body)
       ELSE UNCHANGED positionVars
    /\ tasks' = Finish(t)
    /\ result' = ToolResult(t, sessionId, currentFile, currentLine,
                            currentFunction, isPaused)
    /\ UNCHANGED <<sessionId, isPaused, isInEventLoop, breakpoints, threads,
                   mainThreadId, pausedVars, envVars, lastStoppedThread>>

\* the response to the stackTrace request of refreshPausedState arrives
RefreshStackReply(t, r) ==
    /\ t \in Pending /\ t.pc = "refreshStack"
    /\ r \in StackResponses(t.tid)
    /\ Answers(t.sess, r)
    /\ IF r.ok /\ Len(r.body) > 0
       THEN PositionFrom(r.body)
       ELSE UNCHANGED positionVars
    /\ tasks' = Finish(t)
    /\ result' = ToolResult(t, sessionId, currentFile', currentLine',
                            currentFunction', isPaused)
    /\ UNCHANGED <<sessionId, isPaused, isInEventLoop, breakpoints, threads,
                   mainThreadId, pausedVars, envVars, lastStoppedThread>>

(* --------------- continue / stepOver / stepInto / stepOut / pause ------ *)
\* variant: no tool records a position before its command
PreviousNone(op) == NoPrev

\* the position a tool records before it issues its command
Previous(op) ==
    CASE op = "stepOver" -> [NoPrev EXCEPT !.line = currentLine]
      [] op = "stepInto" -> [NoPrev EXCEPT !.line = currentLine, !.file = currentFile]
      [] op = "stepOut"  -> [NoPrev EXCEPT !.line = currentLine, !.function = currentFunction]
      [] OTHER -> NoPrev

\* variant: pause guarded by the check of the resume tools
ExecutionAllowedWhenPaused(op) == isPaused

\* the precondition on isPaused of an execution tool
ExecutionAllowed(op) == IF op = "pause" THEN ~isPaused ELSE isPaused

\* debugContinue / debugStepOver / debugStepInto / debugStepOut / debugPause
\* up to `await vscode.commands.executeCommand(...)`
ExecutionCall(op) ==
    /\ op \in ExecutionTools
    /\ IF ~isActive
       THEN result' = Failure(op, "No active debug session") /\ UNCHANGED tasks
       ELSE IF ~ExecutionAllowed(op)
       THEN /\ result' = FailureWithHint(op, IF op = "pause" THEN "already paused"
                                                             ELSE "not paused", isPaused)
            /\ UNCHANGED tasks
       ELSE /\ HasRoom
            /\ tasks' = Spawn([Task(op, "command", activeDebugSession, NoId) EXCEPT
                                 !.prev = Previous(op)])
            /\ NoReturn
    /\ UNCHANGED <<stateVars, envVars, lastStoppedThread>>

\* executeCommand resolves or rejects
CommandReply(t, ok) ==
    /\ t \in Pending /\ t.pc = "command"
    /\ IF ok
       THEN tasks' = Move(t, [t EXCEPT !.pc = "settle"]) /\ NoReturn
       ELSE tasks' = Finish(t) /\ result' = Failure(t.kind, "Failed to execute")
    /\ UNCHANGED <<stateVars, envVars, lastStoppedThread>>

\* the settle timer fires: refreshPausedState() is called
Settled(t) ==
    /\ t \in Pending /\ t.pc = "settle"
    /\ refreshPausedState(Finish(t), t)
    /\ UNCHANGED <<stateVars, envVars, lastStoppedThread>>


(* =========================== tools/session.ts ========================== *)
\* path.extname: from the last "." of the base name to the end; empty when
\* the base name has no "." or only a leading one
extname(cs) ==
    LET slash == lastIndexOf(cs, "/", Len(cs))
        dot == lastIndexOf(cs, ".", Len(cs))
    IN  IF dot <= slash + 1 THEN <<>> ELSE SubSeq(cs, dot, Len(cs))

\* detectDebugType: typeMap[ext] || null
detectDebugType(file) ==
    LET ext == toLowerCase(extname(Chars(file)))
    IN  CASE ext = <<".","p","y">> -> "python"
          [] ext \in {<<".","j","s">>, <<".","t","s">>, <<".","m","j","s">>} -> "node"
          [] ext = <<".","g","o">> -> "go"
          [] ext = <<".","j","a","v","a">> -> "java"
          [] ext \in {<<".","c","p","p">>, <<".","c">>} -> "cppdbg"
          [] ext = <<".","c","s">> -> "coreclr"
          [] ext = <<".","r","s">> -> "lldb"
          [] OTHER -> NoStr

StartFiles == {ProgramFile, "/app/notes.txt"}
StartTypes == {NoStr, "node"}
\* launch.json configurations that debug_startWithConfig can name
LaunchConfigurations == UserConfigurations

\* debugStart up to `await vscode.workspace.fs.stat(...)`
debugStart(file, type) ==
    /\ file \in StartFiles /\ type \in StartTypes
    /\ IF isActive
       THEN result' = Failure("start", "already active") /\ UNCHANGED tasks
       ELSE /\ HasRoom
            /\ tasks' = Spawn([Task("start", "stat", NoId, NoId) EXCEPT
                                 !.file = file,
                                 !.arg = IF type # NoStr THEN type ELSE detectDebugType(file)])
            /\ NoReturn
    /\ UNCHANGED <<stateVars, envVars, lastStoppedThread>>

\* fs.stat resolves (the file exists) or rejects; then the debug type is
\* checked and vscode.debug.startDebugging is called
StatReply(t, exists) ==
    /\ t \in Pending /\ t.pc = "stat"
    /\ IF ~exists
       THEN tasks' = Finish(t) /\ result' = Failure("start", "File not found")
       ELSE IF t.arg = NoStr
       THEN tasks' = Finish(t) /\ result' = Failure("start", "Could not detect debug type")
       ELSE tasks' = Move(t, [t EXCEPT !.pc = "launch"]) /\ NoReturn
    /\ UNCHANGED <<stateVars, envVars, lastStoppedThread>>

\* debugStartWithConfig up to `await vscode.debug.startDebugging(...)`
debugStartWithConfig(folderFound, configFound, config) ==
    /\ config \in LaunchConfigurations
    /\ IF isActive
       THEN result' = Failure("startWithConfig", "already active") /\ UNCHANGED tasks
       ELSE IF ~folderFound
       THEN result' = Failure("startWithConfig", "Workspace folder not found")
            /\ UNCHANGED tasks
       ELSE IF ~configFound
       THEN result' = Failure("startWithConfig", "Configuration not found")
            /\ UNCHANGED tasks
       ELSE /\ HasRoom
            /\ tasks' = Spawn([Task("startWithConfig", "launch", NoId, NoId) EXCEPT
                                 !.file = config.program, !.arg = config.type])
            /\ NoReturn
    /\ UNCHANGED <<stateVars, envVars, lastStoppedThread>>

AttachTypes == {"debugpy", "node"}

\* debugAttach up to `await vscode.debug.startDebugging(...)`
debugAttach(type) ==
    /\ type \in AttachTypes
    /\ IF isActive
       THEN result' = Failure("attach", "already active") /\ UNCHANGED tasks
       ELSE /\ HasRoom
            /\ tasks' = Spawn([Task("attach", "launch", NoId, NoId) EXCEPT !.arg = type])
            /\ NoReturn
    /\ UNCHANGED <<stateVars, envVars, lastStoppedThread>>

\* VS Code creates the session that a startDebugging call asked for, the call
\* resolves true and the tool waits for its settle timer
SessionLaunched(t) ==
    /\ t \in Pending /\ t.pc = "launch"
    /\ SessionCreated(Configuration(t.arg, t.file))
    /\ tasks' = Move(t, [t EXCEPT !.pc = "settle", !.sess = created + 1])
    /\ UNCHANGED <<stateVars, activeDebugSession, vsBreakpoints, lastStoppedThread>>
    /\ NoReturn

\* startDebugging resolves false (started = FALSE) or rejects (threw = TRUE)
LaunchFailed(t, threw) ==
    /\ t \in Pending /\ t.pc = "launch"
    /\ tasks' = Finish(t)
    /\ result' = Failure(t.kind, IF threw THEN "Error starting debug session"
                                           ELSE "Failed to start debug session")
    /\ UNCHANGED <<stateVars, envVars, lastStoppedThread>>

\* variant: the request is issued whether or not a session is active
debugStopUnguarded ==
    /\ HasRoom
    /\ tasks' = Spawn(Task("stop", "stopping", activeDebugSession, NoId))
    /\ NoReturn
    /\ UNCHANGED <<stateVars, envVars, lastStoppedThread>>

\* debugStop up to `await vscode.debug.stopDebugging(session)`
debugStop ==
    /\ IF ~isActive
       THEN result' = Failure("stop", "No active debug session") /\ UNCHANGED tasks
       ELSE /\ HasRoom
            /\ tasks' = Spawn(Task("stop", "stopping", activeDebugSession, NoId))
            /\ NoReturn
    /\ UNCHANGED <<stateVars, envVars, lastStoppedThread>>

\* stopDebugging resolves and the clean-up timer fires, or it rejects
StopReply(t, ok) ==
    /\ t \in Pending /\ t.pc = "stopping"
    /\ tasks' = Finish(t)
    /\ result' = IF ok THEN [NoResult EXCEPT !.op = "stop", !.success = TRUE]
                 ELSE Failure("stop", "Error stopping debug session")
    /\ UNCHANGED <<stateVars, envVars, lastStoppedThread>>

\* debugGetStatus up to the first await inside refreshPausedState
debugGetStatus ==
    /\ IF ~isActive
       THEN result' = Failure("getStatus", "No active debug session") /\ UNCHANGED tasks
       ELSE /\ (activeDebugSession # NoId /\ isPaused) => HasRoom
            /\ refreshPausedState(tasks, Task("getStatus", "call", NoId, NoId))
    /\ UNCHANGED <<stateVars, envVars, lastStoppedThread>>


(* ========================= tools/inspection.ts ========================= *)
InspectionTools == {"getStackTrace", "getVariables", "evaluate"}
UnknownFrameId == 99
\* frameId argument: absent, a frame of the adapter, or an id it never issued
FrameIdArguments == {NoId, Frame(1, 1).id, UnknownFrameId}
ScopeArguments == {NoStr, "local"}
ScopesReplies == {<<>>, <<"Locals">>, <<"Locals", "Globals">>}
\* scopes responses: the request throws, the response has no `scopes`, or it
\* lists scopes
NoScopes == [ok |-> TRUE, body |-> <<"none">>]
ScopesResponses == {Threw, NoScopes} \cup {Resolved(q) : q \in ScopesReplies}
MaxVariables == 1
\* variables responses: the request throws or lists body variables
VariablesResponses == {Threw} \cup {Resolved(n) : n \in 0..MaxVariables}

\* scopes.filter(s => s.name.toLowerCase().includes(scope.toLowerCase()))
FilterScopes(scopes, scope) ==
    IF scope = NoStr THEN scopes
    ELSE SelectSeq(scopes, LAMBDA n :
             includes(toLowerCase(Chars(n)), toLowerCase(Chars(scope))))

\* variant: the guards without the check of isPaused
InspectionGuardSessionOnly(op) ==
    IF activeDebugSession = NoId THEN Failure(op, "No active debug session")
    ELSE NoResult

\* the two guards every inspection tool starts with
InspectionGuard(op) ==
    IF activeDebugSession = NoId THEN Failure(op, "No active debug session")
    ELSE IF ~isPaused THEN Failure(op, "not paused")
    ELSE NoResult
InspectionRefused(op) == InspectionGuard(op) # NoResult

FramesResult(op, frames) ==
    [NoResult EXCEPT !.op = op, !.success = TRUE, !.sessionId = sessionId,
                     !.frameId = IF Len(frames) > 0 THEN frames[1].id ELSE NoId,
                     !.count = Len(frames)]

\* debugGetStackTrace up to its first await (none when the cache is used)
debugGetStackTrace ==
    /\ IF InspectionRefused("getStackTrace")
       THEN result' = InspectionGuard("getStackTrace") /\ UNCHANGED tasks
       ELSE IF Len(stackFrames) > 0
       THEN result' = FramesResult("getStackTrace", stackFrames) /\ UNCHANGED tasks
       ELSE /\ HasRoom
            /\ tasks' = Spawn(Task("getStackTrace", "threads", activeDebugSession, NoId))
            /\ NoReturn
    /\ UNCHANGED <<stateVars, envVars, lastStoppedThread>>

\* debugGetVariables(frameId, scope) up to its first await
debugGetVariables(frameId, scope) ==
    /\ frameId \in FrameIdArguments /\ scope \in ScopeArguments
    /\ IF InspectionRefused("getVariables")
       THEN result' = InspectionGuard("getVariables") /\ UNCHANGED tasks
       ELSE /\ HasRoom
            /\ tasks' = Spawn([Task("getVariables", "threads", activeDebugSession, NoId)
                                 EXCEPT !.frameId = frameId, !.arg = scope])
            /\ NoReturn
    /\ UNCHANGED <<stateVars, envVars, lastStoppedThread>>

\* debugEvaluate(expression, frameId, context) up to its first await
debugEvaluate(frameId) ==
    /\ frameId \in FrameIdArguments
    /\ IF InspectionRefused("evaluate")
       THEN result' = InspectionGuard("evaluate") /\ UNCHANGED tasks
       ELSE /\ HasRoom
            /\ tasks' = Spawn([Task("evaluate", IF frameId = NoId THEN "threads"
                                                 ELSE "evaluate",
                                    activeDebugSession, NoId)
                                 EXCEPT !.frameId = frameId])
            /\ NoReturn
    /\ UNCHANGED <<stateVars, envVars, lastStoppedThread>>

\* the threads response of an inspection tool arrives: the stack of the
\* first listed thread is requested
InspectThreadsReply(t, r) ==
    /\ t \in Pending /\ t.kind \in InspectionTools /\ t.pc = "threads"
    /\ r \in ThreadsResponses
    /\ Answers(t.sess, r)
    /\ IF ~r.ok
       THEN tasks' = Finish(t) /\ result' = Failure(t.kind, "adapter error")
       ELSE IF Len(r.body) = 0
       THEN tasks' = Finish(t)
            /\ result' = Failure(t.kind, IF t.kind = "evaluate"
                                         THEN "Could not determine frame ID"
                                         ELSE "No threads available")
       ELSE tasks' = Move(t, [t EXCEPT !.pc = "stack", !.tid = r.body[1].id])
            /\ NoReturn
    /\ UNCHANGED <<stateVars, envVars, lastStoppedThread>>

\* variant: a frame id the stack trace does not list is replaced by the top frame
TargetFrameIdValidated(frameId, frames) ==
    IF frameId # NoId /\ \E i \in 1..Len(frames) : frames[i].id = frameId
    THEN frameId ELSE frames[1].id

\* frameId !== undefined ? frameId : stackResponse.stackFrames[0].id
TargetFrameId(frameId, frames) ==
    IF frameId # NoId THEN frameId ELSE frames[1].id

\* the stackTrace response of an inspection tool arrives
InspectStackReply(t, r) ==
    /\ t \in Pending /\ t.kind \in InspectionTools /\ t.pc = "stack"
    /\ r \in StackResponses(t.tid)
    /\ Answers(t.sess, r)
    /\ IF ~r.ok
       THEN tasks' = Finish(t) /\ result' = Failure(t.kind, "adapter error")
       ELSE IF t.kind = "getStackTrace"
       THEN tasks' = Finish(t) /\ result' = FramesResult(t.kind, r.body)
       ELSE IF Len(r.body) = 0
       THEN tasks' = Finish(t)
            /\ result' = Failure(t.kind, IF t.kind = "evaluate"
                                         THEN "Could not determine frame ID"
                                         ELSE "No stack frames available")
       ELSE LET targetFrameId == TargetFrameId(t.frameId, r.body)
            IN  /\ tasks' = Move(t, [t EXCEPT !.frameId = targetFrameId,
                                              !.pc = IF t.kind = "evaluate" THEN "evaluate"
                                                     ELSE "scopes"])
                /\ NoReturn
    /\ UNCHANGED <<stateVars, envVars, lastStoppedThread>>


VariablesResult(t, scopesLeft, count) ==
    [NoResult EXCEPT !.op = t.kind, !.success = TRUE, !.sessionId = sessionId,
                     !.frameId = t.frameId, !.count = count]

\* the scopes response arrives; the surviving scopes are listed one by one
ScopesReply(t, r) ==
    /\ t \in Pending /\ t.kind = "getVariables" /\ t.pc = "scopes"
    /\ r \in ScopesResponses
    /\ Answers(t.sess, r)
    /\ IF ~r.ok
       THEN tasks' = Finish(t) /\ result' = Failure(t.kind, "adapter error")
       ELSE IF r = NoScopes
       THEN tasks' = Finish(t) /\ result' = Failure(t.kind, "No scopes available for frame")
       ELSE LET targetScopes == FilterScopes(r.body, t.arg)
            IN  IF Len(targetScopes) = 0
                THEN tasks' = Finish(t) /\ result' = VariablesResult(t, <<>>, 0)
                ELSE tasks' = Move(t, [t EXCEPT !.pc = "variables", !.todo = targetScopes])
                     /\ NoReturn
    /\ UNCHANGED <<stateVars, envVars, lastStoppedThread>>

\* the variables response for the next scope arrives
VariablesReply(t, r) ==
    /\ t \in Pending /\ t.kind = "getVariables" /\ t.pc = "variables"
    /\ r \in VariablesResponses
    /\ Answers(t.sess, r)
    /\ IF ~r.ok
       THEN tasks' = Finish(t) /\ result' = Failure(t.kind, "adapter error")
       ELSE IF Len(t.todo) = 1
       THEN tasks' = Finish(t) /\ result' = VariablesResult(t, <<>>, t.acc + r.body)
       ELSE tasks' = Move(t, [t EXCEPT !.todo = Tail(t.todo), !.acc = t.acc + r.body])
            /\ NoReturn
    /\ UNCHANGED <<stateVars, envVars, lastStoppedThread>>

\* evaluate responses: the request throws, resolves with nothing, or with a result
EvaluateResponses == {Threw, [ok |-> TRUE, body |-> <<"none">>], Resolved(<<"value">>)}

\* variant: a rejected evaluate request is taken as the debuggee running
InspectEvaluateReplyResuming(t, r) ==
    /\ t \in Pending /\ t.kind = "evaluate" /\ t.pc = "evaluate"
    /\ r \in EvaluateResponses
    /\ Answers(t.sess, r)
    /\ tasks' = Finish(t)
    /\ result' = IF ~r.ok THEN Failure(t.kind, "adapter error")
                 ELSE IF r.body = <<"none">> THEN Failure(t.kind, "Evaluation returned no result")
                 ELSE [NoResult EXCEPT !.op = t.kind, !.success = TRUE,
                                       !.sessionId = sessionId, !.frameId = t.frameId]
    /\ isPaused' = (isPaused /\ r.ok)
    /\ UNCHANGED <<sessionId, positionVars, isInEventLoop, breakpoints, threads,
                   mainThreadId, pausedVars, envVars, lastStoppedThread>>

\* the evaluate response of debugEvaluate arrives
InspectEvaluateReply(t, r) ==
    /\ t \in Pending /\ t.kind = "evaluate" /\ t.pc = "evaluate"
    /\ r \in EvaluateResponses
    /\ Answers(t.sess, r)
    /\ tasks' = Finish(t)
    /\ result' = IF ~r.ok THEN Failure(t.kind, "adapter error")
                 ELSE IF r.body = <<"none">> THEN Failure(t.kind, "Evaluation returned no result")
                 ELSE [NoResult EXCEPT !.op = t.kind, !.success = TRUE,
                                       !.sessionId = sessionId, !.frameId = t.frameId]
    /\ UNCHANGED <<stateVars, envVars, lastStoppedThread>>


(* ========================= tools/breakpoints.ts ======================== *)
MaxSet == 2       \* breakpoints the tools create
BreakpointFiles == {FrameworkFile, "main.py"}
BreakpointLines == {1, 26}
BreakpointConditions == {NoStr, "x > 1"}

\* vscode.Uri.file(file).fsPath: a path without a leading slash gets one
fsPath(file) ==
    IF file = FrameworkFile \/ file = ProgramFile THEN file ELSE "/" \o file

\* the SourceBreakpoint object the tool constructs; its identity is a number
\* that no live breakpoint has and no waiting call holds
NewBreakpointIds == (MaxBps + 1)..(MaxBps + MaxSet)
FreshIds ==
    {i \in NewBreakpointIds :
        /\ \A k \in 1..Len(vsBreakpoints) : vsBreakpoints[k].id # i
        /\ \A t \in Pending : ~(t.kind = "setBreakpoint" /\ t.acc = i)}
SourceBreakpoint(id, file, line, condition) ==
    [id |-> id, condition |-> condition, source |-> TRUE,
     file |-> fsPath(file), line0 |-> line - 1]

\* variant: the tool's line compared with the stored line as it is
AtLocationSameLine(bp, file, line) ==
    bp.source /\ bp.file = file /\ bp.line0 = line

\* bp instanceof vscode.SourceBreakpoint && bp.location.uri.fsPath === file &&
\* bp.location.range.start.line === line - 1
AtLocation(bp, file, line) ==
    bp.source /\ bp.file = file /\ bp.line0 = line - 1

\* debugSetBreakpoint up to `await vscode.workspace.fs.stat(fileUri)`
debugSetBreakpoint(file, line, condition) ==
    /\ file \in BreakpointFiles /\ line \in BreakpointLines
    /\ condition \in BreakpointConditions
    /\ HasRoom
    /\ tasks' = Spawn([Task("setBreakpoint", "stat", NoId, NoId) EXCEPT
                         !.file = file, !.line = line, !.arg = condition])
    /\ UNCHANGED <<stateVars, envVars, lastStoppedThread>>
    /\ NoReturn

\* fs.stat rejects (File not found), or resolves: the breakpoint is created
\* and added to the live list, the change notification is delivered to the
\* mirror, and the tool waits 100 ms holding the object it created
SetStatReply(t, exists) ==
    /\ t \in Pending /\ t.kind = "setBreakpoint" /\ t.pc = "stat"
    /\ IF ~exists
       THEN /\ tasks' = Finish(t)
            /\ result' = Failure("setBreakpoint", "File not found")
            /\ UNCHANGED <<breakpoints, vsBreakpoints>>
       ELSE /\ FreshIds # {}
            /\ LET bp == SourceBreakpoint(CHOOSE i \in FreshIds : \A j \in FreshIds : i <= j,
                                           t.file, t.line, t.arg)
               IN  /\ vsBreakpoints' = Append(vsBreakpoints, bp)
                   /\ breakpoints' = MirrorAdd(breakpoints, bp)
                   /\ tasks' = Move(t, [t EXCEPT !.pc = "added", !.acc = bp.id])
            /\ NoReturn
    /\ UNCHANGED <<sessionId, positionVars, isPaused, isInEventLoop, threads,
                   mainThreadId, pausedVars, activeDebugSession, sessions,
                   configurations, lastStoppedThread>>

RECURSIVE Find(_, _, _, _)
\* allBreakpoints.find(matching): 1-based index of the first match, 0 if none
Find(q, file, line, i) ==
    IF i > Len(q) THEN 0
    ELSE IF AtLocation(q[i], file, line) THEN i ELSE Find(q, file, line, i + 1)

\* the 100 ms timer of debugSetBreakpoint fires: the live list is searched
SetSettled(t) ==
    /\ t \in Pending /\ t.kind = "setBreakpoint" /\ t.pc = "added"
    /\ tasks' = Finish(t)
    /\ LET found == Find(vsBreakpoints, t.file, t.line, 1)
       IN  result' = IF found > 0
                     THEN [NoResult EXCEPT !.op = "setBreakpoint", !.success = TRUE,
                                           !.file = t.file, !.line = t.line,
                                           !.condition = t.arg, !.index = found - 1]
                     ELSE Failure("setBreakpoint", "Failed to set breakpoint")
    /\ UNCHANGED <<stateVars, envVars, lastStoppedThread>>

\* vscode.debug.breakpoints.filter(matching)
Matching(q, file, line) == SelectSeq(q, LAMBDA bp : AtLocation(bp, file, line))

RECURSIVE MirrorRemoveAll(_, _, _)
\* the change notification of removeBreakpoints: for (const bp of event.removed)
MirrorRemoveAll(m, q, i) ==
    IF i > Len(q) THEN m ELSE MirrorRemoveAll(MirrorRemove(m, q[i]), q, i + 1)

\* debugRemoveBreakpoint up to its 100 ms timer
debugRemoveBreakpoint(file, line) ==
    /\ file \in BreakpointFiles /\ line \in BreakpointLines
    /\ LET breakpointsToRemove == Matching(vsBreakpoints, file, line)
       IN  IF Len(breakpointsToRemove) = 0
           THEN /\ result' = Failure("removeBreakpoint", "No breakpoint found")
                /\ UNCHANGED <<breakpoints, vsBreakpoints, tasks>>
           ELSE /\ HasRoom
                /\ vsBreakpoints' = SelectSeq(vsBreakpoints,
                                              LAMBDA bp : ~AtLocation(bp, file, line))
                /\ breakpoints' = MirrorRemoveAll(breakpoints, breakpointsToRemove, 1)
                /\ tasks' = Spawn([Task("removeBreakpoint", "removed", NoId, NoId) EXCEPT
                                     !.file = file, !.line = line,
                                     !.acc = Len(breakpointsToRemove)])
                /\ NoReturn
    /\ UNCHANGED <<sessionId, positionVars, isPaused, isInEventLoop, threads,
                   mainThreadId, pausedVars, activeDebugSession, sessions,
                   configurations, lastStoppedThread>>

\* the 100 ms timer of debugRemoveBreakpoint fires
RemoveSettled(t) ==
    /\ t \in Pending /\ t.kind = "removeBreakpoint" /\ t.pc = "removed"
    /\ tasks' = Finish(t)
    /\ result' = [NoResult EXCEPT !.op = "removeBreakpoint", !.success = TRUE,
                                  !.file = t.file, !.line = t.line, !.count = t.acc]
    /\ UNCHANGED <<stateVars, envVars, lastStoppedThread>>

\* variant: the line is reported as stored
ListEntryZeroBased(bp) ==
    [file |-> bp.file, line |-> bp.line0, condition |-> bp.condition, enabled |-> TRUE]

\* one element of the list that debugListBreakpoints returns
ListEntry(bp) ==
    [file |-> bp.file, line |-> bp.line0 + 1, condition |-> bp.condition, enabled |-> TRUE]

RECURSIVE ListEntries(_, _)
ListEntries(q, i) ==
    IF i > Len(q) THEN <<>> ELSE <<ListEntry(q[i])>> \o ListEntries(q, i + 1)

\* debugListBreakpoints
debugListBreakpoints ==
    /\ LET breakpointList == ListEntries(SelectSeq(vsBreakpoints, LAMBDA bp : bp.source), 1)
       IN  result' = [NoResult EXCEPT !.op = "listBreakpoints", !.success = TRUE,
                                      !.count = Len(breakpointList),
                                      !.list = breakpointList]
    /\ UNCHANGED <<stateVars, envVars, tasks, lastStoppedThread>>


(* ============================ specifications =========================== *)
Lifecycle ==
    \/ \E c \in UserConfigurations : UserStartsSession(c)
    \/ \E s \in Sids \cup {NoId} : onDidChangeActiveDebugSession(s)
    \/ \E s \in Sids : onDidTerminateDebugSession(s)

PauseEvents ==
    \/ \E s \in Sids, tid \in Tids \cup {NoId}, reason \in Reasons : onStopped(s, tid, reason)
    \/ \E s \in Sids, tid \in Tids \cup {NoId} : onContinued(s, tid)

RegistryEvents ==
    \E s \in Sids, tid \in Tids, reason \in {"started", "exited"} : onThread(s, tid, reason)

\* the stopped and continued events of one thread
FirstThread == CHOOSE t \in Tids : \A u \in Tids : t <= u
ThreadPauseEvents ==
    \/ \E s \in Sids, reason \in Reasons : onStopped(s, FirstThread, reason)
    \/ \E s \in Sids : onContinued(s, FirstThread)

\* a threads response of a debuggee that has one thread
SingleThreaded(r) == ~r.ok \/ \A i \in DOMAIN r.body : r.body[i].id = FirstThread

\* refreshPausedState's requests answered by a debuggee that has one thread
ThreadRefreshReplies ==
    \/ \E t \in Pending : Settled(t)
    \/ \E t \in Pending, r \in ThreadsResponses :
          SingleThreaded(r) /\ RefreshThreadsReply(t, r)
    \/ \E t \in Pending : \E r \in StackResponses(t.tid) : RefreshStackReply(t, r)

\* the settle timer of a tool fires
SettleTimers ==
    \E t \in Pending : Settled(t)

\* the follow-up of a stopped event whose threads request is rejected
UpdateRejected ==
    \E t \in Pending : UpdateThreadsReply(t, Threw)

UpdateReplies ==
    \/ \E t \in Pending, r \in ThreadsResponses : UpdateThreadsReply(t, r)
    \/ \E t \in Pending : \E r \in StackResponses(t.tid) : UpdateStackReply(t, r)
    \/ \E t \in Pending, r \in EvalReplies : EvaluateReply(t, r)

StackItemEvents ==
    \/ \E item \in StackItems : onDidChangeActiveStackItem(item)
    \/ \E t \in Pending : \E r \in StackResponses(t.tid) : CaptureStackReply(t, r)

BreakpointEvents ==
    \/ \E bp \in Breakpoints : BreakpointAdded(bp)
    \/ \E bp \in Breakpoints : BreakpointRemoved(bp)

RefreshReplies ==
    \/ \E t \in Pending : Settled(t)
    \/ \E t \in Pending, r \in ThreadsResponses : RefreshThreadsReply(t, r)
    \/ \E t \in Pending : \E r \in StackResponses(t.tid) : RefreshStackReply(t, r)

ExecutionCalls ==
    \/ \E op \in ExecutionTools : ExecutionCall(op)
    \/ \E t \in Pending, ok \in BOOLEAN : CommandReply(t, ok)

SessionCalls ==
    \/ \E file \in StartFiles, type \in StartTypes : debugStart(file, type)
    \/ \E t \in Pending, exists \in BOOLEAN : StatReply(t, exists)
    \/ \E folderFound, configFound \in BOOLEAN, config \in LaunchConfigurations :
          debugStartWithConfig(folderFound, configFound, config)
    \/ \E type \in AttachTypes : debugAttach(type)
    \/ \E t \in Pending : SessionLaunched(t)
    \/ \E t \in Pending, threw \in BOOLEAN : LaunchFailed(t, threw)
    \/ debugStop
    \/ \E t \in Pending, ok \in BOOLEAN : StopReply(t, ok)

InspectionCalls ==
    \/ debugGetStackTrace
    \/ \E frameId \in FrameIdArguments, scope \in ScopeArguments :
          debugGetVariables(frameId, scope)
    \/ \E frameId \in FrameIdArguments : debugEvaluate(frameId)
    \/ \E t \in Pending, r \in ThreadsResponses : InspectThreadsReply(t, r)
    \/ \E t \in Pending : \E r \in StackResponses(t.tid) : InspectStackReply(t, r)
    \/ \E t \in Pending, r \in ScopesResponses : ScopesReply(t, r)
    \/ \E t \in Pending, r \in VariablesResponses : VariablesReply(t, r)
    \/ \E t \in Pending, r \in EvaluateResponses : InspectEvaluateReply(t, r)

\* the pause events of a session and their follow-up requests
Next == Lifecycle \/ PauseEvents \/ UpdateReplies
Spec == Init /\ [][Next]_vars

\* thread start and exit events next to the pause events of a session
NextRegistry == Lifecycle \/ PauseEvents \/ RegistryEvents \/ UpdateRejected
SpecRegistry == Init /\ [][NextRegistry]_vars

\* the editor's active stack item followed through a session
NextStackItem == Lifecycle \/ StackItemEvents
SpecStackItem == Init /\ [][NextStackItem]_vars

\* the breakpoint mirror followed through the editor's breakpoint changes
NextMirror == Lifecycle \/ BreakpointEvents
SpecMirror == Init /\ [][NextMirror]_vars

\* the asyncio probe of a follow-up is answered
ProbeReplies ==
    \E t \in Pending, r \in EvalReplies : EvaluateReply(t, r)

\* sessions that end after pauses, stack item changes and breakpoint changes
NextEnd ==
    Lifecycle \/ ThreadPauseEvents \/ UpdateRejected \/ StackItemEvents \/ ProbeReplies
        \/ BreakpointEvents
SpecEnd == Init /\ [][NextEnd]_vars

\* the requests of a status query's refresh answered by any debuggee
StatusRefreshReplies ==
    \/ \E t \in Pending, r \in ThreadsResponses : RefreshThreadsReply(t, r)
    \/ \E t \in Pending : \E r \in StackResponses(t.tid) : RefreshStackReply(t, r)

\* the status query and its refresh between the pause events of a session
NextRefresh ==
    Lifecycle \/ PauseEvents \/ UpdateRejected \/ debugGetStatus \/ StatusRefreshReplies
SpecRefresh == Init /\ [][NextRefresh]_vars

\* the follow-up of a stopped event with its stackTrace request rejected
UpdateThreadReplies ==
    \/ \E t \in Pending, r \in ThreadsResponses : UpdateThreadsReply(t, r)
    \/ \E t \in Pending : UpdateStackReply(t, Threw)

\* the stopped thread chosen by the follow-up of a stopped event and by the
\* refresh of a status query, in a debuggee with several threads; the
\* stackTrace request for the chosen thread is rejected
RefreshThreadReplies ==
    \/ \E t \in Pending, r \in ThreadsResponses : RefreshThreadsReply(t, r)
    \/ \E t \in Pending : RefreshStackReply(t, Threw)
NextSelect ==
    Lifecycle \/ PauseEvents \/ UpdateThreadReplies \/ debugGetStatus
        \/ RefreshThreadReplies
SpecSelect == Init /\ [][NextSelect]_vars

\* a debuggee with MaxThreads threads, each sitting at one frame: a threads
\* response lists all of them, a stackTrace response is the frame of the
\* thread asked about, and the probe and every request that follows the
\* choice of a frame are rejected
AllThreads(r) == r.ok /\ Len(r.body) = MaxThreads
TopOf(t) == IF t.sess \in Alive THEN Resolved(<<Frame(t.tid, 1)>>) ELSE Threw
SittingEvents ==
    \E s \in Sids, tid \in Tids, reason \in Reasons : onStopped(s, tid, reason)
SittingReplies ==
    \/ \E t \in Pending, r \in ThreadsResponses :
          AllThreads(r) /\ UpdateThreadsReply(t, r)
    \/ \E t \in Pending : UpdateStackReply(t, TopOf(t))
    \/ \E t \in Pending : EvaluateReply(t, ProbeThrew)
\* the inspection tools called without a frame id
TopFrameCalls ==
    \/ debugGetStackTrace
    \/ debugGetVariables(NoId, NoStr)
    \/ debugEvaluate(NoId)
    \/ \E t \in Pending, r \in ThreadsResponses :
          AllThreads(r) /\ InspectThreadsReply(t, r)
    \/ \E t \in Pending : InspectStackReply(t, TopOf(t))
    \/ \E t \in Pending : ScopesReply(t, Threw)
    \/ \E t \in Pending : InspectEvaluateReply(t, Threw)

\* the frame the inspection tools act on while such a debuggee is paused
NextFrames == Lifecycle \/ SittingEvents \/ SittingReplies \/ TopFrameCalls
SpecFrames == Init /\ [][NextFrames]_vars

\* two sessions side by side: the user starts a second one and moves the
\* focus between them while thread events and stack-item changes arrive
SwitchSids == 1..(MaxSessions + 1)
SwitchLifecycle ==
    \/ \E c \in UserConfigurations : UserStartsSession(c)
    \/ \E c \in UserConfigurations : AnotherSessionStarts(c)
    \/ \E s \in SwitchSids \cup {NoId} : onDidChangeActiveDebugSession(s)
    \/ \E s \in SwitchSids : onDidTerminateDebugSession(s)
SwitchEvents ==
    \/ \E s \in SwitchSids, tid \in Tids, reason \in {"started", "exited"} :
          onThread(s, tid, reason)
    \/ \E item \in StackItems : onDidChangeActiveStackItem(item)
NextSwitch == SwitchLifecycle \/ SwitchEvents
SpecSwitch == Init /\ [][NextSwitch]_vars

\* pauses classified while the editor's breakpoints change
NextClassifier == Lifecycle \/ PauseEvents \/ UpdateReplies \/ BreakpointEvents
SpecClassifier == Init /\ [][NextClassifier]_vars

\* a debuggee that stops at entry and stays there: the stop is announced by a
\* stopped event and by the editor focusing the entry frame, and every request
\* is answered with the one stopped thread and its entry frame for as long as
\* the session lives
EntryFrame == Frame(FirstThread, 1)
EntryThreads(t) ==
    IF t.sess \in Alive THEN Resolved(<<ReplyThread(FirstThread, TRUE)>>) ELSE Threw
EntryStack(t) == IF t.sess \in Alive THEN Resolved(<<EntryFrame>>) ELSE Threw
EntryEvents ==
    \/ \E s \in Sids, reason \in Reasons : onStopped(s, FirstThread, reason)
    \/ onDidChangeActiveStackItem(StackItem("frame", FirstThread, EntryFrame.id))
EntryReplies ==
    \/ \E t \in Pending : UpdateThreadsReply(t, EntryThreads(t))
    \/ \E t \in Pending : UpdateStackReply(t, EntryStack(t))
    \/ \E t \in Pending : CaptureStackReply(t, EntryStack(t))
    \/ \E t \in Pending : RefreshThreadsReply(t, EntryThreads(t))
    \/ \E t \in Pending : RefreshStackReply(t, EntryStack(t))

\* debug_start and debug_getStatus while the debuggee sits at its entry stop
NextEntry ==
    Lifecycle \/ SessionCalls \/ SettleTimers \/ EntryEvents \/ EntryReplies
        \/ ProbeReplies \/ debugGetStatus
SpecEntry == Init /\ [][NextEntry]_vars

\* a request of a follow-up, of a frame capture or of a refresh is rejected
RejectedReplies ==
    \/ \E t \in Pending : UpdateThreadsReply(t, Threw)
    \/ \E t \in Pending : UpdateStackReply(t, Threw)
    \/ \E t \in Pending : CaptureStackReply(t, Threw)
    \/ \E t \in Pending : RefreshThreadsReply(t, Threw)
    \/ \E t \in Pending : RefreshStackReply(t, Threw)

\* the stop at entry followed up, focused in the editor and refreshed by the
\* status query, with every request answered or rejected
NextRequests ==
    Lifecycle \/ EntryEvents \/ EntryReplies \/ RejectedReplies \/ ProbeReplies
        \/ debugGetStatus
SpecRequests == Init /\ [][NextRequests]_vars

BreakpointCalls ==
    \/ \E file \in BreakpointFiles, line \in BreakpointLines,
          condition \in BreakpointConditions : debugSetBreakpoint(file, line, condition)
    \/ \E t \in Pending, exists \in BOOLEAN : SetStatReply(t, exists)
    \/ \E t \in Pending : SetSettled(t)
    \/ \E file \in BreakpointFiles, line \in BreakpointLines :
          debugRemoveBreakpoint(file, line)
    \/ \E t \in Pending : RemoveSettled(t)
    \/ debugListBreakpoints

\* the breakpoint tools called while the editor's breakpoints change
NextBreakpoints == BreakpointEvents \/ BreakpointCalls
SpecBreakpoints == Init /\ [][NextBreakpoints]_vars

\* the inspection tools called between the pause events of a session
NextInspect == Lifecycle \/ ThreadPauseEvents \/ UpdateRejected \/ InspectionCalls
SpecInspect == Init /\ [][NextInspect]_vars

\* the execution tools and the status query called between pause events
NextExec ==
    Lifecycle \/ ThreadPauseEvents \/ UpdateRejected \/ ExecutionCalls
        \/ ThreadRefreshReplies \/ debugGetStatus
SpecExec == Init /\ [][NextExec]_vars

\* the session tools called while sessions start, become active and end
NextSession == Lifecycle \/ SessionCalls \/ SettleTimers
SpecSession == Init /\ [][NextSession]_vars


(* =============================== claims ================================ *)
\* a step that delivers a continued event of the tracked session which names
\* the main thread or no thread
ContinuedMainStep ==
    \E tid \in Tids \cup {NoId} :
        /\ sessionId \in Alive
        /\ tid = mainThreadId \/ tid = NoId
        /\ onContinued(sessionId, tid)

\* a step in which the follow-up of a stopped event (updateCurrentPosition)
\* handles the threads or the stackTrace response
UpdateStep(t) ==
    /\ t \in Pending /\ t.kind = "ucp" /\ t.pc \in {"threads", "stack"}
    /\ tasks' = Finish(t) \/ \E u \in BagToSet(tasks') : tasks' = Move(t, u)
    /\ tasks' # tasks

\* C1: in every reachable state isInEventLoop = TRUE implies isPaused = FALSE.
C1_EventLoopImpliesNotPaused == isInEventLoop => ~isPaused

\* C6: after a continued event that targets the main thread or carries no
\* thread id, isPaused and isInEventLoop are false and the cached stack
\* frames are empty.
C6_ContinuedClearsFrames ==
    [][ContinuedMainStep => (~isPaused' /\ ~isInEventLoop' /\ stackFrames' = <<>>)]_vars

\* C7: the handling of a stopped event (its thread-list and stack-trace
\* follow-up) keeps the reported thread marked stopped and keeps isPaused true;
\* only the Pause Classifier downgrades isPaused.
C7_OnlyClassifierDowngrades ==
    [][\A t \in Pending :
          (UpdateStep(t) /\ isPaused) =>
              /\ isPaused'
              /\ (lastStoppedThread # NoId /\ MapHas(threads, lastStoppedThread)
                    /\ MapGet(threads, lastStoppedThread).stopped)
                   => (MapHas(threads', lastStoppedThread)
                         /\ MapGet(threads', lastStoppedThread).stopped)]_vars

InspectionCallStep(op) ==
    CASE op = "getStackTrace" -> debugGetStackTrace
      [] op = "getVariables" ->
           \E frameId \in FrameIdArguments, scope \in ScopeArguments :
               debugGetVariables(frameId, scope)
      [] op = "evaluate" -> \E frameId \in FrameIdArguments : debugEvaluate(frameId)

\* C2: getStackTrace, getVariables and evaluate called while isPaused is false
\* return a precondition failure and send no request to the adapter, whatever
\* their arguments.
C2_InspectionNeedsPause ==
    [][\A op \in InspectionTools :
          (InspectionCallStep(op) /\ ~isPaused) =>
              /\ result'.op = op /\ ~result'.success
              /\ result'.error \in {"No active debug session", "not paused"}
              /\ tasks' = tasks
              /\ UNCHANGED stateVars]_vars

\* C2 witness: with a session active and running, an inspection tool was refused
C2_Witness ==
    /\ activeDebugSession # NoId /\ sessionId # NoId /\ ~isPaused
    /\ result.op \in InspectionTools /\ ~result.success /\ result.error = "not paused"

\* the pause precondition the execution tools document
PauseRequirement(op) == (op \in ResumeTools /\ isPaused) \/ (op = "pause" /\ ~isPaused)
SessionTracked == sessionId # NoId /\ activeDebugSession # NoId

C4_RefreshFollowsAdapter ==
    [][\A t \in Pending, r \in ThreadsResponses :
          (/\ RefreshThreadsReply(t, r)
           /\ r.ok /\ Len(r.body) > 0
           /\ \A i \in DOMAIN r.body : ~r.body[i].stopped) => ~isPaused']_vars

\* the status fields of the returned object are those of the session state
StatusIsCurrent ==
    /\ result.op = "getStatus" /\ result.success
    /\ result.sessionId = sessionId
    /\ result.file = currentFile
    /\ result.line = currentLine
    /\ result.function = currentFunction
    /\ result.hasPaused /\ result.isPaused = isPaused

\* a step in which getStatus, called with a session tracked, returns
GetStatusReturns ==
    \/ debugGetStatus /\ SessionTracked /\ tasks' = tasks
    \/ \E t \in Pending : t.kind = "getStatus" /\ tasks' = Finish(t)

\* C5: with a session active, getStatus starts refreshPausedState before it
\* reads anything, and the file, line, function and paused values it returns
\* are those of the state after that refresh.
C5_StatusReadAfterRefresh ==
    [][/\ GetStatusReturns => StatusIsCurrent'
       /\ (debugGetStatus /\ SessionTracked /\ isPaused) =>
             \E t \in BagToSet(tasks') :
                 t.kind = "getStatus" /\ t.pc = "refreshThreads" /\ tasks' = Spawn(t)]_vars

\* C5 witness: getStatus returned the position its refresh had just fetched
C5_Witness ==
    /\ StatusIsCurrent /\ isPaused
    /\ stackFrames # <<>> /\ result.line = stackFrames[1].line

\* a step in which start, startWithConfig or attach is called
StartCallStep ==
    \/ \E file \in StartFiles, type \in StartTypes : debugStart(file, type)
    \/ \E folderFound, configFound \in BOOLEAN, config \in LaunchConfigurations :
          debugStartWithConfig(folderFound, configFound, config)
    \/ \E type \in AttachTypes : debugAttach(type)

\* C9: start, startWithConfig and attach called while a session is active
\* return a failure and issue no launch or attach request.
C9_StartRefusedWhenActive ==
    [][(StartCallStep /\ SessionTracked) =>
          /\ result'.op \in StartTools /\ ~result'.success
          /\ tasks' = tasks
          /\ UNCHANGED <<stateVars, envVars>>]_vars

\* C9 witness: a start request was refused because a session is active
C9_Witness ==
    /\ SessionTracked
    /\ result.op \in StartTools /\ ~result.success /\ result.error = "already active"

\* a start or attach has issued its launch and no session is active yet, or a
\* stop has been issued and has not returned
Starting == \E t \in Pending : t.kind \in StartTools /\ t.pc = "launch"
Stopping == \E t \in Pending : t.kind = "stop" /\ t.pc = "stopping"

\* C10: a start or attach request that arrives while another one is Starting
\* or while a stop is Stopping fails and issues no second launch request.
C10_OneLaunchAtATime ==
    [][(StartCallStep /\ (Starting \/ Stopping)) =>
          /\ result'.op \in StartTools /\ ~result'.success
          /\ tasks' = tasks]_vars

\* a step in which the tracked session ends: its termination event, or the
\* active session becoming none
SessionEndStep ==
    \/ sessionId # NoId /\ onDidTerminateDebugSession(sessionId)
    \/ onDidChangeActiveDebugSession(NoId)

\* C11: when the tracked session ends, session id, current file, line and
\* function, isPaused, isInEventLoop, the cached frames, the thread registry,
\* the main-thread id and the paused-frame info are all cleared in that one
\* step, and the mirrored breakpoints are left as they were.
C11_SessionEndClearsState ==
    [][SessionEndStep =>
          /\ sessionId' = NoId /\ currentFile' = NoStr /\ currentLine' = NoId
          /\ currentFunction' = NoStr /\ ~isPaused' /\ ~isInEventLoop'
          /\ stackFrames' = <<>> /\ threads' = <<>> /\ mainThreadId' = NoId
          /\ pausedThreadId' = NoId /\ pausedFrameId' = NoId /\ pausedLine' = NoId
          /\ pausedFunction' = NoStr /\ pausedFile' = NoStr
          /\ breakpoints' = breakpoints]_vars

\* C11 witness: a session has ended, the state is cleared and a mirrored
\* breakpoint is still there
C11_Witness ==
    /\ created > 0 /\ sessions = {} /\ sessionId = NoId
    /\ stackFrames = <<>> /\ threads = <<>> /\ pausedFrameId = NoId
    /\ FrameworkFile \in DOMAIN breakpoints


\* C12: refresh is idempotent and never fails. Each step of refreshPausedState
\* leaves the flags and the active session alone; applying the same threads
\* answer to the registry it produced gives that registry again and selects
\* the same stopped thread; applying the same stackTrace answer to the position
\* it produced gives that position again; and whenever the refresh ends, with
\* a rejected request or not, its caller gets a result that is no failure.
C12_RefreshIdempotent ==
    [][/\ debugGetStatus => UNCHANGED stateVars
       /\ \A t \in Pending, r \in ThreadsResponses :
             RefreshThreadsReply(t, r) =>
               /\ UNCHANGED <<isPaused, isInEventLoop, activeDebugSession, sessionId,
                              positionVars, mainThreadId>>
               /\ IF r.ok /\ Len(r.body) > 0
                  THEN /\ SetAll(threads', r.body, 1) = threads'
                       /\ IF FindStopped(threads') = NoId
                          THEN tasks' = Finish(t) /\ result'.success
                          ELSE tasks' = Move(t, [t EXCEPT !.pc = "refreshStack",
                                                         !.tid = FindStopped(threads')])
                  ELSE threads' = threads /\ tasks' = Finish(t) /\ result'.success
       /\ \A t \in Pending : \A r \in StackResponses(t.tid) :
             RefreshStackReply(t, r) =>
               /\ UNCHANGED <<isPaused, isInEventLoop, activeDebugSession, sessionId,
                              threads, mainThreadId>>
               /\ tasks' = Finish(t) /\ result'.success
               /\ IF r.ok /\ Len(r.body) > 0
                  THEN /\ stackFrames' = r.body
                       /\ currentLine' = r.body[1].line
                       /\ currentFunction' = r.body[1].name
                       /\ currentFile' = IF r.body[1].path # NoStr THEN r.body[1].path
                                         ELSE currentFile'
                  ELSE UNCHANGED positionVars]_vars

\* a refresh that went through both requests has returned, with a registry of
\* two threads and a position taken from a frame
C12_Witness ==
    /\ result.op = "getStatus" /\ result.success
    /\ Len(threads) = 2 /\ stackFrames # <<>>
    /\ currentLine = stackFrames[1].line /\ isPaused

\* a mirrored breakpoint of the current file whose 1-based line is at most 5
\* lines away from the current line
BreakpointWithin5 ==
    /\ currentFile # NoStr /\ currentLine # NoId
    /\ \E bp \in Breakpoints :
          /\ IndexOf(BreakpointsInFile(currentFile), bp, 1) > 0
          /\ currentLine - 5 <= bp.line0 + 1 /\ bp.line0 + 1 <= currentLine + 5

\* C13: when the probe of a debugpy/python session answers with a task count,
\* the stop is classified as a false pause (isInEventLoop = TRUE, isPaused set
\* to FALSE) exactly when the count exceeds one, the current file or function
\* is framework code, and no breakpoint of the current file is within 5 lines;
\* otherwise isInEventLoop is FALSE and isPaused is left alone.
C13_FalsePauseExactly ==
    [][\A t \in Pending, r \in EvalReplies :
          (r.kind = "tuple" /\ EvaluateReply(t, r)) =>
             LET falsePause == /\ r.count > 1
                               /\ isFrameworkCode(currentFile, currentFunction)
                               /\ ~BreakpointWithin5
             IN  /\ isInEventLoop' = falsePause
                 /\ isPaused' = IF falsePause THEN FALSE ELSE isPaused]_vars

\* a false pause was classified in a file that has a breakpoint farther away
C13_Witness ==
    /\ isInEventLoop /\ ~isPaused
    /\ currentFile \in DOMAIN breakpoints
    /\ ~BreakpointWithin5

\* the probe's answer r makes the classifier call the stop a false pause
FalsePause(r) ==
    /\ r.kind = "tuple" /\ r.count > 1
    /\ isFrameworkCode(currentFile, currentFunction)
    /\ ~BreakpointWithin5

\* C14: whenever the classifier runs and does not classify the stop as a false
\* pause (no probe for the adapter type, probe rejected, no usable result, at
\* most one task, no framework location, or a breakpoint near), isInEventLoop
\* is FALSE afterwards and isPaused is left as it was.
C14_GenuineStopClearsEventLoop ==
    [][/\ \A t \in Pending, r \in EvalReplies :
             (EvaluateReply(t, r) /\ ~FalsePause(r)) =>
                 ~isInEventLoop' /\ isPaused' = isPaused
       /\ \A t \in Pending : \A r \in StackResponses(t.tid) :
             (UpdateStackReply(t, r) /\ r.ok /\ Len(r.body) > 0 /\ ~hasProbe(t.arg)) =>
                 ~isInEventLoop' /\ isPaused' = isPaused]_vars

\* C15: with the debuggee of a session that debug_start launched stopped at
\* entry, once the activation event and the editor's focus on the entry frame
\* have been delivered, a successful start or status result reports
\* isPaused = TRUE and the line of the entry frame, whatever the order of the
\* activation event, the stopped event and the stack item change.
C15_EntryStopReported ==
    (/\ result.op \in {"start", "getStatus"} /\ result.success
     /\ result.sessionId # NoId
     /\ configurations[result.sessionId] = Configuration("python", ProgramFile)
     /\ pausedFrameId = EntryFrame.id)
        => result.isPaused /\ result.line = EntryFrame.line

\* a step in which execution tool op passes its checks and issues its command
CommandIssued(op) ==
    /\ ExecutionCall(op) /\ tasks' # tasks

\* the task of the command issued in this step
IssuedTask(op) ==
    CHOOSE u \in BagToSet(tasks') :
        u.kind = op /\ u.pc = "command" /\ tasks' = tasks (+) SetToBag({u})

\* a successful result of an execution tool is built in the step that ends its
\* refresh, from the state the refresh left, and carries what its task
\* recorded; a command is only ever issued by a tool call
BuiltAfterRefresh ==
    /\ (result'.op \in ExecutionTools /\ result'.success) =>
          /\ result'.isPaused = isPaused'
          /\ result'.line = currentLine' /\ result'.file = currentFile'
          /\ \E t \in Pending :
                /\ t.kind = result'.op
                /\ t.pc \in {"settle", "refreshThreads", "refreshStack"}
                /\ tasks' = Finish(t)
                /\ result'.prev = t.prev
    /\ \A u \in BagToSet(tasks') :
          (u.pc = "command" /\ CopiesIn(u, tasks') > CopiesIn(u, tasks)) =>
             \E op \in ExecutionTools : CommandIssued(op)
    /\ \A t \in Pending, ok \in BOOLEAN :
          CommandReply(t, ok) => CopiesIn(t, tasks') = CopiesIn(t, tasks) - 1

\* C16 as stated: every execution tool records the current line before it
\* issues its command, and its result is built after the refresh and carries
\* that record.
C16_EveryToolCarriesPrevious ==
    [][/\ \A op \in ExecutionTools :
             CommandIssued(op) => IssuedTask(op).prev.line = currentLine
       /\ BuiltAfterRefresh]_vars

\* C16: each execution tool issues its command once, then refreshes, then
\* builds its result from the state after the refresh. stepOver records the
\* line, stepInto the file and line, stepOut the function and line that were
\* current before the command, and the result carries them; continue and
\* pause record no position.
C16_StepToolsCarryPrevious ==
    [][/\ \A op \in ExecutionTools :
             CommandIssued(op) =>
                LET prev == IssuedTask(op).prev
                IN  /\ prev.line = IF op \in {"stepOver", "stepInto", "stepOut"}
                                   THEN currentLine ELSE NoId
                    /\ prev.file = IF op = "stepInto" THEN currentFile ELSE NoStr
                    /\ prev.function = IF op = "stepOut" THEN currentFunction ELSE NoStr
       /\ BuiltAfterRefresh]_vars

\* a step over returned with the line before the command and the line the
\* refresh found
C16_Witness ==
    /\ result.op = "stepOver" /\ result.success
    /\ result.prev.line # NoId /\ result.line # NoId
    /\ result.line # result.prev.line

\* a step in which a stopped or continued event of the tracked session is
\* handled and changes the session state
PauseEventStep ==
    /\ stateVars' # stateVars
    /\ \E s \in Sids, tid \in Tids \cup {NoId} :
          \/ \E reason \in Reasons : onStopped(s, tid, reason)
          \/ onContinued(s, tid)

\* C17: events are applied one at a time: while the follow-up of a stopped
\* event (threads, stackTrace, classifier) is unfinished, no later stopped or
\* continued event changes the session state.
C17_FollowUpBeforeLaterEvents ==
    [][(\E t \in Pending : t.kind = "ucp") => ~PauseEventStep]_vars

\* C18: an execution tool whose session ended while it was in flight (waiting
\* for its command, its settle timer or its refresh) returns a failure.
C18_EndedSessionFailsTheCall ==
    [][\A t \in Pending :
          (/\ t.kind \in ExecutionTools /\ t.sess \notin Alive
           /\ tasks' = Finish(t) /\ result'.op = t.kind)
              => ~result'.success]_vars

\* C19: a rejected threads or stackTrace request leaves the position, the
\* cached frames and isPaused as they were, in the follow-up of a stopped
\* event, in the capture of a focused frame and in refresh; the follow-up ends
\* silently and the caller of refresh gets its result.
C19_RejectedRequestKeepsPosition ==
    [][\A t \in Pending :
          /\ (\/ UpdateThreadsReply(t, Threw) \/ UpdateStackReply(t, Threw)
              \/ CaptureStackReply(t, Threw))
                => /\ UNCHANGED <<positionVars, isPaused>>
                   /\ tasks' = Finish(t) /\ result' = NoResult
          /\ (RefreshThreadsReply(t, Threw) \/ RefreshStackReply(t, Threw))
                => /\ UNCHANGED <<positionVars, isPaused>>
                   /\ tasks' = Finish(t)
                   /\ result'.op = t.kind /\ result'.success
                   /\ result'.line = currentLine /\ result'.isPaused = isPaused]_vars

\* a status query whose threads request was rejected returned the position
\* that a frame capture had recorded
C19_Witness ==
    /\ result.op = "getStatus" /\ result.success /\ result.isPaused
    /\ result.line = EntryFrame.line /\ stackFrames = <<EntryFrame>>
    /\ threads = <<>>

\* C20: whenever frames are cached, currentLine, currentFunction and
\* currentFile are the line, the name and the source path of the first cached
\* frame.
C20_PositionFromOneResponse ==
    stackFrames # <<>> =>
        /\ currentLine = stackFrames[1].line
        /\ currentFunction = stackFrames[1].name
        /\ currentFile = stackFrames[1].path

\* C21 as stated: in every reachable state isInEventLoop = TRUE implies
\* isPaused = TRUE.
C21_EventLoopImpliesPaused == isInEventLoop => isPaused

\* C21: isInEventLoop turns TRUE only in the step in which the classifier's
\* probe is answered, and that step leaves isPaused = FALSE.
C21_EventLoopSetWithPauseCleared ==
    [][(~isInEventLoop /\ isInEventLoop') =>
          /\ ~isPaused'
          /\ \E t \in Pending, r \in EvalReplies : EvaluateReply(t, r)]_vars

\* a stop was classified as a false pause
C21_Witness ==
    /\ isInEventLoop /\ ~isPaused /\ stackFrames # <<>> /\ sessionId # NoId


\* C22: when the probe's evaluate request is rejected, isInEventLoop is FALSE
\* afterwards, isPaused and the position are unchanged, and the follow-up ends
\* without returning or raising anything.
C22_RejectedProbeIsNotEventLoop ==
    [][\A t \in Pending :
          EvaluateReply(t, ProbeThrew) =>
             /\ ~isInEventLoop'
             /\ UNCHANGED <<isPaused, positionVars, threads, sessionId>>
             /\ tasks' = Finish(t) /\ result' = NoResult]_vars

\* a stop of a debugpy session in framework code that is not flagged as an
\* event loop wait, with no follow-up left
C22_Witness ==
    /\ sessionId # NoId /\ hasProbe(configurations[sessionId].type)
    /\ isPaused /\ ~isInEventLoop /\ Pending = {}
    /\ stackFrames # <<>> /\ isFrameworkCode(currentFile, currentFunction)

\* the live source breakpoints of file whose 1-based line is line
LiveAt(file, line) ==
    {k \in 1..Len(vsBreakpoints) :
        /\ vsBreakpoints[k].source /\ vsBreakpoints[k].file = file
        /\ vsBreakpoints[k].line0 + 1 = line}

\* C23: remove(file, line) with no breakpoint there returns the "not found"
\* failure and changes neither the live list nor the mirror nor anything in
\* flight; with breakpoints there, the live list afterwards is the old one
\* without exactly those, in the old order, and the tool then reports how many
\* it removed.
C23_RemoveExactlyTheLocation ==
    [][/\ \A file \in BreakpointFiles, line \in BreakpointLines :
             debugRemoveBreakpoint(file, line) =>
                IF LiveAt(file, line) = {}
                THEN /\ result' = Failure("removeBreakpoint", "No breakpoint found")
                     /\ UNCHANGED <<vsBreakpoints, breakpoints, tasks>>
                ELSE /\ vsBreakpoints' =
                          SelectSeq(vsBreakpoints,
                                    LAMBDA bp : ~(bp.source /\ bp.file = file
                                                  /\ bp.line0 + 1 = line))
                     /\ \E t \in BagToSet(tasks') :
                           /\ tasks' = tasks (+) SetToBag({t})
                           /\ t.kind = "removeBreakpoint"
                           /\ t.acc = Cardinality(LiveAt(file, line))
       /\ \A t \in Pending :
             RemoveSettled(t) =>
                /\ result'.success /\ result'.count = t.acc
                /\ UNCHANGED <<vsBreakpoints, breakpoints>>]_vars

\* two breakpoints at one location were removed and another one is still live
C23_Witness ==
    /\ result.op = "removeBreakpoint" /\ result.success /\ result.count = 2
    /\ Len(vsBreakpoints) > 0
    /\ LiveAt(result.file, result.line) = {}

\* the live breakpoint with identity id, if any
LiveIds == {vsBreakpoints[k].id : k \in 1..Len(vsBreakpoints)}
\* the tool-side description of a stored source breakpoint: lines count from 1
External(bp) == [file |-> bp.file, line |-> bp.line0 + 1, condition |-> bp.condition]
Externals(q) == {External(q[k]) : k \in {j \in 1..Len(q) : q[j].source}}
Listed(r) == {[file |-> r.list[k].file, line |-> r.list[k].line,
               condition |-> r.list[k].condition] : k \in 1..Len(r.list)}

C25_StopThenStartAgain ==
    [][/\ debugStop =>
            IF sessionId # NoId /\ activeDebugSession # NoId
            THEN /\ \E t \in BagToSet(tasks') :
                       /\ tasks' = tasks (+) SetToBag({t})
                       /\ t.kind = "stop" /\ t.sess = activeDebugSession
                 /\ UNCHANGED <<stateVars, envVars>>
            ELSE /\ ~result'.success /\ result'.op = "stop"
                 /\ result'.error = "No active debug session"
                 /\ UNCHANGED <<tasks, stateVars, envVars>>
       /\ (sessionId # NoId /\ onDidTerminateDebugSession(sessionId)) =>
            /\ sessionId' = NoId /\ ~isPaused' /\ ~isInEventLoop'
            /\ currentFile' = NoStr /\ currentLine' = NoId /\ currentFunction' = NoStr
            /\ stackFrames' = <<>> /\ threads' = <<>> /\ mainThreadId' = NoId
            /\ pausedThreadId' = NoId /\ pausedFrameId' = NoId
       /\ (sessionId = NoId /\ StartCallStep) =>
            /\ result'.error # "already active"
            /\ \/ Cardinality(BagToSet(tasks')) > 0 /\ tasks' # tasks
               \/ result'.error \in {"Workspace folder not found", "Configuration not found"}]_vars

\* stop() has returned success for a session that was tracked, the session has
\* terminated and the state is cleared
C25_Witness ==
    /\ result.op = "stop" /\ result.success
    /\ created > 0 /\ sessions = {} /\ sessionId = NoId /\ ~isPaused
    /\ currentFile = NoStr

\* the failures that refuse a call for a precondition: no session, not
\* paused, already paused, a session already active
PreconditionErrors ==
    {"No active debug session", "not paused", "already paused", "already active"}
\* the failure tells the caller what to do: it has a `hint` field, or its
\* message names the tool to call first (the two refusals of the inspection
\* tools, "... Start debugging first with debug_start." and "... Use
\* debug_pause or hit a breakpoint first.", and the refusal of the start
\* tools, "... Stop it first with debug_stop.")
NamesRemedy(r) ==
    \/ r.hint
    \/ r.op \in InspectionTools /\ r.error \in {"No active debug session", "not paused"}
    \/ r.error = "already active"

\* C26: a call refused for a precondition returns a failure object that
\* tells the caller what to do.
C26_EveryRefusalNamesRemedy ==
    (~result.success /\ result.error \in PreconditionErrors) => NamesRemedy(result)

\* the frame ids of a stackTrace response
FrameIds(frames) == {frames[i].id : i \in 1..Len(frames)}

\* C27: getVariables called while paused keeps the frameId it was given. When
\* the stack trace arrives and does not list that id, the scopes request goes
\* out with exactly that id and the session state is untouched; when the
\* adapter rejects the scopes request, the tool returns a failure; and a
\* result that succeeds names the id that was given.
C27_UnknownFrameIdReachesAdapter ==
    [][/\ \A frameId \in FrameIdArguments, scope \in ScopeArguments :
             (/\ debugGetVariables(frameId, scope)
              /\ activeDebugSession # NoId /\ isPaused) =>
                \E u \in BagToSet(tasks') :
                   /\ tasks' = tasks (+) SetToBag({u})
                   /\ u.kind = "getVariables" /\ u.frameId = frameId
       /\ \A t \in Pending :
             \A r \in StackResponses(t.tid) :
                (/\ InspectStackReply(t, r) /\ t.kind = "getVariables"
                 /\ r.ok /\ Len(r.body) > 0
                 /\ t.frameId # NoId /\ t.frameId \notin FrameIds(r.body)) =>
                    /\ \E u \in BagToSet(tasks') :
                          /\ u.kind = "getVariables" /\ u.pc = "scopes"
                          /\ u.frameId = t.frameId
                          /\ tasks' = (tasks (-) SetToBag({t})) (+) SetToBag({u})
                    /\ result' = NoResult
                    /\ UNCHANGED stateVars
       /\ \A t \in Pending :
             ScopesReply(t, Threw) =>
                /\ ~result'.success /\ result'.op = "getVariables"
                /\ result'.error = "adapter error"
                /\ tasks' = tasks (-) SetToBag({t})
       /\ \A t \in Pending, r \in ScopesResponses :
             (ScopesReply(t, r) /\ result'.success) => result'.frameId = t.frameId
       /\ \A t \in Pending, r \in VariablesResponses :
             (VariablesReply(t, r) /\ result'.success) => result'.frameId = t.frameId]_vars

\* the scopes request for a frame id the adapter never issued is in flight
\* while the session is paused and frames are cached
C27_Witness ==
    /\ isPaused /\ sessionId # NoId
    /\ \E t \in Pending :
          /\ t.kind = "getVariables" /\ t.pc = "scopes"
          /\ t.frameId = UnknownFrameId

\* C28: no step of getStackTrace, getVariables or evaluate - the call, any of
\* its responses, success or failure - changes isPaused, isInEventLoop, the
\* current file, line or function, the thread registry, the main-thread id,
\* the session id, the paused-frame info or the breakpoint mirror.
C28_InspectionLeavesStateAlone ==
    [][InspectionCalls =>
          UNCHANGED <<isPaused, isInEventLoop, currentFile, currentLine, currentFunction,
                      threads, mainThreadId, sessionId, pausedVars, breakpoints>>]_vars

\* evaluate has failed at the adapter and the session is still tracked, paused
\* and at its position, with its registry
C28_Witness ==
    /\ result.op = "evaluate" /\ ~result.success /\ result.error = "adapter error"
    /\ sessionId # NoId /\ isPaused /\ currentFile = ProgramFile /\ threads # <<>>

\* C29: after a stopped or a continued event of the tracked session that
\* names a thread, the registry has an entry for that thread, stopped after
\* the first and not stopped after the second, whatever it held before.
C29_EventCreatesEntry ==
    [][\A tid \in Tids :
          /\ \A reason \in Reasons :
                (sessionId # NoId /\ onStopped(sessionId, tid, reason)) =>
                    MapHas(threads', tid) /\ MapGet(threads', tid).stopped
          /\ (sessionId # NoId /\ onContinued(sessionId, tid)) =>
                    MapHas(threads', tid) /\ ~MapGet(threads', tid).stopped]_vars

\* the step sends call t on to its stackTrace request, asked for thread tid
Chosen(t, pc, tid) == tasks' = (tasks (-) SetToBag({t})) (+) SetToBag({[t EXCEPT !.pc = pc, !.tid = tid]})
\* the registry holds the main thread as stopped
MainStopped(m, main) ==
    main # NoId /\ \E i \in 1..Len(m) : m[i].id = main /\ m[i].stopped

\* the follow-up of a stopped event asks for the stack of the main thread
\* whenever the registry it has just updated holds the main thread as stopped
FollowUpPrefersMain ==
    [][\A t \in Pending, r \in ThreadsResponses, tid \in Tids :
          (/\ UpdateThreadsReply(t, r) /\ Chosen(t, "stack", tid)
           /\ MainStopped(threads', mainThreadId')) => tid = mainThreadId']_vars

\* C30: whenever a threads response leads to a stackTrace request - in the
\* follow-up of a stopped event and in the refresh alike - and the registry
\* then holds the main thread as stopped, the request is for the main thread.
C30_MainThreadPreferred ==
    [][\A t \in Pending, r \in ThreadsResponses, tid \in Tids :
          (/\ \/ UpdateThreadsReply(t, r) /\ Chosen(t, "stack", tid)
              \/ RefreshThreadsReply(t, r) /\ Chosen(t, "refreshStack", tid)
           /\ MainStopped(threads', mainThreadId')) => tid = mainThreadId']_vars

\* C31: once the registry of the tracked session holds a thread - seen
\* through a thread event, a stopped event or a threads response - the
\* main-thread id is set.
C31_MainThreadKnownOnceObserved ==
    (sessionId # NoId /\ threads # <<>>) => mainThreadId # NoId

C33_NoPauseWithoutSession ==
    sessionId = NoId =>
        /\ ~isPaused /\ ~isInEventLoop
        /\ stackFrames = <<>> /\ currentLine = NoId /\ currentFunction = NoStr

\* the ids of the registry entries marked stopped
StoppedIds(m) == {m[i].id : i \in {j \in 1..Len(m) : m[j].stopped}}

\* C34: isPaused implies a stopped thread in the registry; in particular, a
\* continued event for the only thread that is marked stopped, main thread or
\* not, leaves isPaused false.
C34_ContinuedOfLastStoppedUnpauses ==
    [][\A tid \in Tids :
          (/\ sessionId # NoId /\ StoppedIds(threads) = {tid}
           /\ onContinued(sessionId, tid)) =>
              /\ StoppedIds(threads') = {}
              /\ ~isPaused']_vars

\* C35: when getVariables or evaluate, called without a frame id, chooses its
\* frame while the session is paused and frames are cached, the frame it
\* asks the adapter about is the first cached frame, the one getStackTrace
\* returns first.
C35_ToolsShareTopFrame ==
    [][\A t \in Pending :
          (/\ InspectStackReply(t, TopOf(t))
           /\ t.kind \in {"getVariables", "evaluate"} /\ t.frameId = NoId
           /\ t.sess \in Alive
           /\ sessionId # NoId /\ isPaused /\ stackFrames # <<>>) =>
              \E u \in BagToSet(tasks') :
                 /\ u.kind = t.kind /\ u.pc \in {"scopes", "evaluate"}
                 /\ u.frameId = stackFrames[1].id
                 /\ FramesResult("getStackTrace", stackFrames).frameId = u.frameId]_vars

\* a stopped, continued or thread event, or the termination event, of a
\* session that is not the tracked one leaves the session state as it was
ForeignEventsFiltered ==
    [][\A s \in Sids :
          (/\ s # sessionId
           /\ \/ \E tid \in Tids \cup {NoId}, reason \in Reasons : onStopped(s, tid, reason)
              \/ \E tid \in Tids \cup {NoId} : onContinued(s, tid)
              \/ \E tid \in Tids, reason \in {"started", "exited"} : onThread(s, tid, reason)
              \/ onDidTerminateDebugSession(s)) => UNCHANGED stateVars]_vars

\* C36: an event of a session that is not the tracked one changes no field of
\* the session state; an active-stack-item change for a thread or frame while
\* the tracked session is not among the live ones is such an event.
C36_ForeignEventsChangeNothing ==
    [][/\ \A s \in Sids :
             (/\ s # sessionId
              /\ \/ \E tid \in Tids \cup {NoId}, reason \in Reasons : onStopped(s, tid, reason)
                 \/ \E tid \in Tids \cup {NoId} : onContinued(s, tid)
                 \/ onDidTerminateDebugSession(s)) => UNCHANGED stateVars
       /\ \A item \in StackItems :
             (/\ item.kind # "none" /\ sessionId \notin sessions
              /\ onDidChangeActiveStackItem(item)) => UNCHANGED stateVars]_vars

\* C37: when the active session changes from the tracked session to another
\* one, the new session starts with an empty thread registry, no main-thread
\* id, no cached frames, no current line or function and no paused-frame
\* info.
C37_NothingSurvivesTheSwitch ==
    [][\A s \in SwitchSids :
          (/\ sessionId # NoId /\ s # sessionId
           /\ onDidChangeActiveDebugSession(s)) =>
              /\ sessionId' = s
              /\ threads' = <<>> /\ mainThreadId' = NoId
              /\ stackFrames' = <<>> /\ currentLine' = NoId /\ currentFunction' = NoStr
              /\ pausedThreadId' = NoId /\ pausedFrameId' = NoId /\ pausedLine' = NoId
              /\ pausedFunction' = NoStr /\ pausedFile' = NoStr]_vars

\* the source breakpoints of the live list that sit in a file, in list order
LiveIn(file) == SelectSeq(vsBreakpoints, LAMBDA bp : bp.source /\ bp.file = file)
LiveFiles == {vsBreakpoints[k].file : k \in {j \in 1..Len(vsBreakpoints) : vsBreakpoints[j].source}}

\* C38: after any sequence of breakpoint tool calls and breakpoint-change
\* notifications the mirror has an entry for exactly the files that hold a
\* live source breakpoint, each entry lists exactly the live source
\* breakpoints of its file (so it is never empty), and the proximity test
\* answers yes on the line of every live source breakpoint and at both ends
\* of its window.
C38_MirrorMatchesLiveList ==
    /\ DOMAIN breakpoints = LiveFiles
    /\ \A f \in DOMAIN breakpoints :
          /\ breakpoints[f] = LiveIn(f)
          /\ Len(breakpoints[f]) > 0
    /\ \A k \in 1..Len(vsBreakpoints) :
          vsBreakpoints[k].source =>
              \A d \in {-BreakpointWindow, 0, BreakpointWindow} :
                  vsBreakpoints[k].line0 + 1 + d > 0 =>
                      isNearBreakpoint(vsBreakpoints[k].file, vsBreakpoints[k].line0 + 1 + d)

\* a removal by the tool has taken a breakpoint out of a file in which two
\* other breakpoints are still live
C38_Witness ==
    /\ \E t \in Pending :
          /\ t.kind = "removeBreakpoint" /\ t.pc = "removed"
          /\ Len(LiveIn(t.file)) = 2
          /\ t.file \in DOMAIN breakpoints
====
